---- MODULE Spec2Model ----
(***************************************************************************)
(* QuestGear3DStudio: the reconstruction orchestrator                      *)
(* (modules/quest_reconstruction_pipeline.py), the volumetric integrator   *)
(* (modules/reconstruction.py) and the GUI reconstruction worker           *)
(* (modules/gui.py), as state machines.                                    *)
(*                                                                         *)
(* In these, images, depth buffers and matrices are abstracted to the      *)
(* classes the control flow distinguishes: a payload is present or None, a *)
(* pose is finite or holds NaN/Inf, a call returns or raises.              *)
(*                                                                         *)
(* The computations of modules/quest_reconstruction_utils.py (depth        *)
(* linearization, coordinate conversion, intrinsics from FOV tangents) are *)
(* modelled on values: SpecDepth, SpecConv and SpecIntr apply them to      *)
(* inputs drawn from finite sets; SpecLoad reads a project's frames.json.  *)
(*                                                                         *)
(* Outside the reconstruction modules: ZipValidator (modules/ingestion.py) *)
(* in SpecZip, the training log of NerfStudioUI                            *)
(* (modules/nerfstudio_gui.py) in SpecLog and NerfStudioTrainer            *)
(* (modules/nerfstudio_trainer.py) in SpecTrain, the last two with their   *)
(* threads interleaved step by step.                                       *)
(***************************************************************************)
EXTENDS Integers, Sequences, FiniteSets, TLC

VARIABLES
    HAS_OPEN3D,        \* reconstruction.py:6-10, the engine could be imported
    strict_rotation,   \* the installed scipy rejects a non-finite rotation matrix
    export_env,        \* config['export']['save_mesh'], and whether the mesh
                       \* file can be written
    frames,            \* pipeline.frames, the manifest's frame records
    camera_metadata,   \* pipeline.camera_metadata, per camera label
    volume,            \* reconstructor.volume, the observations fused so far
    args,              \* the arguments of the current run_reconstruction call
    cancel_requested,  \* the caller-owned boolean behind is_cancelled()
    pc,                \* position of run_reconstruction
    i,                 \* loop index over processing_frames
    cam_idx,           \* position in cameras_to_process (1-based)
    processed_count,
    failed_count,
    result,            \* what run_reconstruction returned
    outcome,           \* terminal outcome of the run
    run_no,            \* number of the current run of this process
    unit_log,          \* history: what became of each (frame, camera) unit
    polled,            \* history: iteration indices that passed the cancel poll
    extract_calls,     \* history: calls of extract_mesh in this run
    cancel_at,         \* history: where the run stood when cancel was requested
    async_event,       \* the terminal event AsyncQuestReconstruction reported
    reports,           \* history: (what the caller saw, outcome) of ended runs
    progress,          \* history: the values passed to on_progress in this run
    on_frame_log,      \* history: the values passed to on_frame in this run
    poll_count,        \* history: evaluations of the cancel test of line 172
    \* ReconstructionThread (gui.py)
    t_frames,          \* frames_data
    t_is_running,      \* self._is_running
    t_pc,              \* position of ReconstructionThread.run
    t_i,               \* loop index
    t_volume,          \* the volume of the thread's own QuestReconstructor
    t_events,          \* the on_finished / on_error calls made, in order
    t_extract_calls,   \* history: calls of extract_mesh
    t_progress,        \* history: the values passed to on_progress, each
                       \* <<n, d>> for the fraction n / d
    t_stop_at,         \* history: the loop index at which stop() was called
    \* a QuestReconstructor used on its own (reconstruction.py)
    r_volume,          \* self.volume
    r_calls,           \* history: calls of integrate_frame
    r_mesh,            \* what the last extract_mesh call returned
    r_cloud,           \* what the last extract_point_cloud call returned
    r_prev_mesh,       \* history: what the extract_mesh call before it returned,
                       \* kept when no integrate_frame ran between the two
    r_integrated_since, \* history: integrate_frame ran since the last extract_mesh
    \* one depth sample on its way from the raw buffer into the volume
    dp_raw,            \* the raw sample
    dp_near,           \* depth_info['near_z']
    dp_far,            \* depth_info['far_z']
    dp_dtype,          \* dtype of the depth buffer
    dp_value_based,    \* the installed numpy promotes Python scalars by value
    dp_info,           \* depth_info is present for the frame
    dp_pc,             \* "raw", "linear" (after step 2), "integrated"
    dp_linear,         \* depth_linear, the sample handed to integrate_frame
    dp_z,              \* the depth of the sample in the RGBD image
    \* one Transforms object converted to another coordinate system and back
    cv_target,         \* the coordinate system converted to first
    cv_is_camera,      \* the is_camera argument of both conversions
    cv_orig,           \* the Transforms the caller built
    cv_cur,            \* the Transforms the last conversion returned
    cv_pc,             \* "start", "there", "back", "raised", "handed"
    \* one get_camera_intrinsics call
    ci_depth_info,     \* the depth_info argument
    ci_stored,         \* camera_metadata[camera]['intrinsics']
    ci_result,         \* what the call returned
    ci_log,            \* the log entries emitted during the call
    ci_pc,             \* "call", "returned", "raised"
    \* the inputs of a project as the program reads them
    ld_file,           \* frames.json: its form and its frame records
    ld_pipeline,       \* what QuestReconstructionPipeline.__init__ made of it
    ld_thread,         \* what ReconstructionThread.run made of it
    ld_frame,          \* a frame record and camera handed to the frame resolver
    ld_resolved,       \* what process_quest_frame returned for it
    \* one ZipValidator.validate call (ingestion.py)
    zp_archive,        \* the file at zip_path
    zp_result,         \* the (valid, message) pair returned
    \* one AsyncExtractor thread (ingestion.py)
    ex_archive,        \* the file at zip_path
    ex_raises,         \* the callback that raises when it is called, if any
    ex_dir,            \* the directory <zip_name>_extracted on disk
    ex_pc,             \* where run() is
    ex_i,              \* members handled by the extraction loop
    ex_events,         \* history: the callbacks invoked, in order
    \* one frame through QuestDataAdapter (quest_adapter.py) and the head pose
    \* of run_reconstruction
    ad_scan,           \* the frame as recorded: format, position, rotation
    ad_pose,           \* frame['pose'] as written to frames.json
    ad_head_T,         \* head_T as the pipeline builds it
    ad_pc,
    \* the training log of NerfStudioUI (nerfstudio_gui.py)
    lg_buffer,         \* self.log_buffer
    lg_running,        \* self.is_log_updater_running
    lg_starting,       \* _on_training_log calls about to start an updater thread
    lg_upd,            \* the updater threads: position and the local 'lines'
    lg_shown,          \* self.training_log.controls
    lg_trainer,        \* self.trainer.is_running
    lg_calls,          \* history: number of _on_training_log calls made
    \* NerfStudioTrainer (nerfstudio_trainer.py)
    tr_is_running,     \* self.is_running
    tr_process,        \* self.process: 0 for None, else the number of the job
    tr_alive,          \* the training subprocesses that have not exited
    tr_mon,            \* the monitor thread of each job: its position
    tr_stop,           \* position of the thread running stop_training
    tr_results,        \* history: what each start_training call returned
    tr_completed,      \* history: per job, is_running at each call of
                       \* completion_callback by its monitor thread
    \* batch training of NerfStudioUI (nerfstudio_gui.py)
    bt_status,         \* job['status'] of each job of self.batch_queue
    bt_processing,     \* self.is_batch_processing
    bt_index,          \* self.current_batch_index
    bt_thr             \* per thread, where it is in the batch code, and its
                       \* local 'job' (0-based)

thread_vars == <<t_frames, t_is_running, t_pc, t_i, t_volume, t_events,
                 t_extract_calls, t_progress, t_stop_at>>

recon_vars == <<r_volume, r_calls, r_mesh, r_cloud, r_prev_mesh,
               r_integrated_since>>

pipeline_vars == <<strict_rotation, export_env, frames, camera_metadata, volume, args,
                   cancel_requested, pc, i, cam_idx, processed_count,
                   failed_count, result, outcome, run_no, unit_log, polled,
                   extract_calls, cancel_at, async_event, reports,
                   progress, on_frame_log, poll_count>>

depth_vars == <<dp_raw, dp_near, dp_far, dp_dtype, dp_value_based, dp_info,
                dp_pc, dp_linear, dp_z>>

\* the components that are pure computations on one input
conv_vars == <<cv_target, cv_is_camera, cv_orig, cv_cur, cv_pc>>

intr_vars == <<ci_depth_info, ci_stored, ci_result, ci_log, ci_pc>>

load_vars == <<ld_file, ld_pipeline, ld_thread, ld_frame, ld_resolved>>

zip_vars == <<zp_archive, zp_result>>

extract_vars == <<ex_archive, ex_raises, ex_dir, ex_pc, ex_i, ex_events>>

adapt_vars == <<ad_scan, ad_pose, ad_head_T, ad_pc>>

\* the ingestion modules
ingest_vars == <<zip_vars, extract_vars, adapt_vars>>

\* the components outside the reconstruction modules
log_vars == <<lg_buffer, lg_running, lg_starting, lg_upd, lg_shown,
              lg_trainer, lg_calls>>

train_vars == <<tr_is_running, tr_process, tr_alive, tr_mon, tr_stop,
                tr_results, tr_completed>>

batch_vars == <<bt_status, bt_processing, bt_index, bt_thr>>

app_vars == <<ingest_vars, log_vars, train_vars, batch_vars>>

aux_vars == <<depth_vars, conv_vars, intr_vars, load_vars, app_vars>>

\* everything but app_vars
engine_vars == <<HAS_OPEN3D, pipeline_vars, thread_vars, recon_vars,
                 depth_vars, conv_vars, intr_vars, load_vars>>

vars == <<HAS_OPEN3D, pipeline_vars, thread_vars, recon_vars, aux_vars>>

----------------------------------------------------------------------------
(* Bounds of the model *)

\* manifests of 0..SmallFrames frames are enumerated with every frame kind
SmallFrames == 2
\* the long manifest: the fewest frames with an iteration index past the
\* debug window of run_reconstruction (i >= 20 and i % 10 # 0, i.e. i = 21)
ManyFrames == 22
\* runs of run_reconstruction in one behaviour of SpecRuns
MaxRuns == 2
\* frames of a manifest in SpecRuns
RunsFrames == 1
\* frames of a manifest in SpecThread
ThreadFrames == 3
\* distinct observations offered to a reconstructor in SpecRecon
MaxObs == 3
\* frames of a manifest in SpecLoad
LoadFrames == 2
\* frames of a manifest in SpecSelect
SelectFrames == 4
\* calls of _on_training_log in one behaviour of SpecLog
MaxLogCalls == 3
\* updater threads the model can hold at once
MaxUpdaters == 2
\* trainings started in one behaviour of SpecTrain
MaxJobs == 2
\* start_training calls from the UI in one behaviour of SpecTrain
MaxStartCalls == 3
\* jobs in the batch queue
BatchJobs == 2
\* members of an archive in SpecExtract
MaxMembers == 3
\* the largest frame_interval in SpecSelect
MaxStride == 3

(* Program constants *)

\* ingestion.py line 70: an archive of more entries passes without images
FlexibleCount == 100
\* nerfstudio_gui.py line 785: more pending lines than this are coalesced
CoalesceLimit == 50
\* nerfstudio_gui.py line 800: the displayed log is pruned to this length
MaxControls == 500

\* end_frame=None
NoEnd == -1
\* "if i < 20 or (i % 10 == 0)"
DebugFirstFrames == 20
DebugEvery == 10
\* AsyncQuestReconstruction.run: frame_interval=5
AsyncFrameInterval == 5

----------------------------------------------------------------------------
(* Inputs *)

Cameras == {"left", "right"}
CameraModes == {"left", "right", "both"}

\* frame['pose']: usable; a missing 'pose'/'position'/'rotation' key; a zero
\* quaternion; a position holding NaN/Inf
PoseKinds == {"ok", "missing", "zero_quat", "nonfinite"}

\* what QuestImageProcessor.process_quest_frame yields for one camera:
\* (rgb, depth, info); rgb None; depth None; an exception
DataKinds == {"ok", "no_rgb", "no_depth", "raises"}

RegularFrame == [pose |-> "ok", left |-> "ok", right |-> "ok"]

\* frame records: regular, or irregular in one respect
FrameRecords ==
    {RegularFrame}
    \cup {[RegularFrame EXCEPT !.pose = p] : p \in PoseKinds}
    \cup {[RegularFrame EXCEPT !.left = d] : d \in DataKinds}
    \cup {[RegularFrame EXCEPT !.right = d] : d \in DataKinds}

LongManifest == [j \in 1..ManyFrames |-> RegularFrame]

SmallManifests == UNION {[1..n -> FrameRecords] : n \in 0..SmallFrames}

\* camera_metadata[cam]['translation']: finite, or holding NaN/Inf
MetadataKinds == {"finite", "nonfinite"}

RunArgs ==
    [camera : CameraModes, frame_interval : {1}, start_frame : {0},
     end_frame : {NoEnd}, is_cancelled : BOOLEAN, via_async : {FALSE},
     on_log : {TRUE}]

\* the call AsyncQuestReconstruction.run makes
AsyncArgs ==
    [camera |-> "left", frame_interval |-> AsyncFrameInterval, start_frame |-> 0,
     end_frame |-> NoEnd, is_cancelled |-> FALSE, via_async |-> TRUE,
     on_log |-> TRUE]

\* export.save_mesh defaults to True (line 287); the Export directory is
\* writable
DefaultExport == [save_mesh |-> TRUE, writable |-> TRUE]

NotRequested == [requested |-> FALSE, k |-> -1, inflight |-> FALSE]

NoResult == [kind |-> "unset"]
NoneResult == [kind |-> "None"]

----------------------------------------------------------------------------
(* QuestReconstructor *)

\* ScalableTSDFVolume(...) as built by QuestReconstructor.__init__, or None
NewVolume(has_open3d) ==
    IF has_open3d THEN [present |-> TRUE, obs |-> {}]
    ELSE [present |-> FALSE, obs |-> {}]

\* integrate_frame: nothing without a volume, else the observation is fused
integrate_frame(vol, ob) ==
    IF ~vol.present THEN vol
    ELSE [vol EXCEPT !.obs = @ \cup {ob}]

\* lines 279-322, the 'output_path' of the result: the mesh is written under
\* "if on_log:", when it has the attribute 'vertices' (every mesh of
\* extract_mesh has) and save_mesh is set; the path is returned when the file
\* exists
export_mesh(on_log, env) ==
    IF on_log /\ env.save_mesh /\ env.writable THEN "file" ELSE "None"

\* a variant of extract_mesh without the "if not self.volume" guard: the
\* attribute access on None raises
extract_mesh_unguarded(vol) ==
    IF ~vol.present THEN [kind |-> "raises", source |-> {}]
    ELSE [kind |-> "TriangleMesh", source |-> vol.obs]

\* extract_mesh: a DummyMesh without a volume, else the volume's triangle mesh
extract_mesh(vol) ==
    IF ~vol.present THEN [kind |-> "DummyMesh", source |-> {}]
    ELSE [kind |-> "TriangleMesh", source |-> vol.obs]

\* extract_point_cloud: a DummyPC without a volume, else the volume's cloud
extract_point_cloud(vol) ==
    IF ~vol.present THEN [kind |-> "DummyPC", source |-> {}]
    ELSE [kind |-> "PointCloud", source |-> vol.obs]

\* a variant of the extractions that resets the volume once it has been read
volume_reset_by_extract(vol) ==
    [vol EXCEPT !.obs = {}]

\* self.volume after extract_mesh / extract_point_cloud: both only read it
volume_after_extract(vol) ==
    vol

\* len(mesh.vertices), len(mesh.triangles): a function of the fused
\* observations alone (the mesh of an empty volume has none)
mesh_counts(mesh) ==
    [vertices |-> Cardinality(mesh.source), triangles |-> Cardinality(mesh.source)]

----------------------------------------------------------------------------
(* QuestReconstructionPipeline.run_reconstruction: frame selection *)

\* self.reconstructor = QuestReconstructor(...) if HAS_OPEN3D else None
reconstructor_present == HAS_OPEN3D

total_frames == Len(frames)

end_frame ==
    IF args.end_frame = NoEnd \/ args.end_frame >= total_frames
    THEN total_frames - 1
    ELSE args.end_frame

\* frames_subset = self.frames[start_frame : end_frame + 1], as the manifest
\* indices (0-based) of its frames.  A slice bound below zero counts from the
\* end of the list, and both bounds are clamped to the list.
frames_subset ==
    LET bound(b) == IF b < 0
                    THEN (IF b + total_frames < 0 THEN 0 ELSE b + total_frames)
                    ELSE (IF b > total_frames THEN total_frames ELSE b)
        lo == bound(args.start_frame)
        hi == bound(end_frame + 1)
    IN  [j \in 1..(IF hi > lo THEN hi - lo ELSE 0) |-> lo + j - 1]

frames_subset_len == Len(frames_subset)

\* a variant of processing_frames that takes the stride from the start of
\* the manifest and not from start_frame
processing_frames_stride_from_zero ==
    LET picked == {j \in 1..frames_subset_len :
                       frames_subset[j] % args.frame_interval = 0}
    IN  [n \in 1..Cardinality(picked) |->
            CHOOSE x \in {frames_subset[j] : j \in picked} :
                Cardinality({y \in {frames_subset[j] : j \in picked} : y < x})
                    = n - 1]

\* processing_frames = frames_subset[::frame_interval] for
\* frame_interval >= 1, as manifest indices
processing_frames ==
    [n \in 1..((frames_subset_len + args.frame_interval - 1)
                   \div args.frame_interval) |->
        frames_subset[(n - 1) * args.frame_interval + 1]]

total_processing == Len(processing_frames)

\* current_real_index = start_frame + i * frame_interval, line 176
current_real_index(n) == args.start_frame + n * args.frame_interval

\* processing_frames[n], the frame record
processing_frame(n) == frames[processing_frames[n + 1] + 1]

\* the value passed to on_progress in iteration n:
\* int((n + 1) / total_processing * 100)
progress_value(n) == ((n + 1) * 100) \div total_processing

cameras_to_process ==
    IF args.camera = "both" THEN <<"left", "right">> ELSE <<args.camera>>

----------------------------------------------------------------------------
(* QuestReconstructionPipeline.run_reconstruction: one (frame, camera) unit *)

\* lines 186-191: frame['pose']['position'], frame['pose']['rotation'] and
\* R.from_quat(head_rot) raise (KeyError, ValueError) before the try block
pose_read_raises(frame) == frame.pose \in {"missing", "zero_quat"}

\* lines 223-243: final_pose_open3d. A NaN/Inf head position reaches the
\* rotation block through head_T @ extrinsics (NaN * 0), where R.from_matrix
\* either raises or hands the NaN on, depending on the scipy installed; a
\* NaN/Inf camera translation reaches only the translation column.
final_pose(frame, cam) ==
    IF frame.pose = "nonfinite"
    THEN (IF strict_rotation THEN "raises" ELSE "nonfinite")
    ELSE IF camera_metadata[cam] = "nonfinite" THEN "nonfinite"
    ELSE "finite"

\* line 245: the pose is validated only inside the debug window
debug_checked(n) == n < DebugFirstFrames \/ n % DebugEvery = 0

\* a variant of unit_verdict that tests only the color image for None
unit_verdict_rgb_only(data, pose, n) ==
    IF data = "raises" THEN "failed"
    ELSE IF data = "no_rgb" THEN "failed"
    ELSE IF pose = "raises" THEN "failed"
    ELSE IF debug_checked(n) /\ pose = "nonfinite" THEN "dropped"
    ELSE "integrated"

\* lines 196-271, what becomes of one unit:
\*   "failed"      failed_count += 1 (None payload, or the except clause)
\*   "dropped"     the continue of line 257, no counter touched
\*   "integrated"  integrate_frame called, processed_count += 1
unit_verdict(data, pose, n) ==
    IF data = "raises" THEN "failed"
    ELSE IF data \in {"no_rgb", "no_depth"} THEN "failed"
    ELSE IF pose = "raises" THEN "failed"
    ELSE IF debug_checked(n) /\ pose = "nonfinite" THEN "dropped"
    ELSE "integrated"

\* a variant of cancel_seen that polls only on every second iteration
cancel_seen_every_second == args.is_cancelled /\ cancel_requested /\ i % 2 = 0

\* line 172: if is_cancelled and is_cancelled()
cancel_seen == args.is_cancelled /\ cancel_requested

\* what the caller of an ended run has in hand
caller_sees(res, position) ==
    IF position = "raised" THEN "exception" ELSE res.kind

----------------------------------------------------------------------------
(* State *)

Manifests == SmallManifests \cup {LongManifest}

\* the state after QuestReconstructionPipeline.__init__, with a call pending
Constructed(fs, a) ==
    /\ frames = fs
    /\ args = a
    /\ volume = NewVolume(HAS_OPEN3D)
    /\ cancel_requested = FALSE
    /\ pc = "idle"
    /\ i = 0
    /\ cam_idx = 1
    /\ processed_count = 0
    /\ failed_count = 0
    /\ result = NoResult
    /\ outcome = "none"
    /\ unit_log = <<>>
    /\ polled = {}
    /\ extract_calls = 0
    /\ cancel_at = NotRequested
    /\ async_event = "none"
    /\ progress = <<>>
    /\ on_frame_log = <<>>
    /\ poll_count = 0

\* a component that takes no part in a specification
ThreadParked ==
    /\ t_frames = <<>>
    /\ t_is_running = TRUE
    /\ t_pc = "parked"
    /\ t_i = 0
    /\ t_volume = NewVolume(FALSE)
    /\ t_events = <<>>
    /\ t_extract_calls = 0
    /\ t_progress = <<>>
    /\ t_stop_at = -1

\* the components of aux_vars that take no part in a specification: all but
\* the one named
AuxParkedExcept(c) ==
    /\ c # "depth" =>
          /\ dp_raw = "parked"
          /\ dp_near = "parked"
          /\ dp_far = "parked"
          /\ dp_dtype = "float32"
          /\ dp_value_based = FALSE
          /\ dp_info = FALSE
          /\ dp_pc = "parked"
          /\ dp_linear = "parked"
          /\ dp_z = "parked"
    /\ c # "conv" =>
          /\ cv_target = "UNITY"
          /\ cv_is_camera = FALSE
          /\ cv_orig = "parked"
          /\ cv_cur = "parked"
          /\ cv_pc = "parked"
    /\ c # "intr" =>
          /\ ci_depth_info = "parked"
          /\ ci_stored = "parked"
          /\ ci_result = "parked"
          /\ ci_log = <<>>
          /\ ci_pc = "parked"
    /\ c # "load" =>
          /\ ld_file = "parked"
          /\ ld_pipeline = "parked"
          /\ ld_thread = "parked"
          /\ ld_frame = "parked"
          /\ ld_resolved = "parked"
    /\ c # "zip" =>
          /\ zp_archive = "parked"
          /\ zp_result = "parked"
    /\ c # "extract" =>
          /\ ex_archive = "parked"
          /\ ex_raises = "parked"
          /\ ex_dir = "parked"
          /\ ex_pc = "parked"
          /\ ex_i = 0
          /\ ex_events = <<>>
    /\ c # "adapt" =>
          /\ ad_scan = "parked"
          /\ ad_pose = "parked"
          /\ ad_head_T = "parked"
          /\ ad_pc = "parked"
    /\ c # "log" =>
          /\ lg_buffer = <<>>
          /\ lg_running = FALSE
          /\ lg_starting = 0
          /\ lg_upd = <<>>
          /\ lg_shown = <<>>
          /\ lg_trainer = FALSE
          /\ lg_calls = 0
    /\ c # "batch" =>
          /\ bt_status = <<>>
          /\ bt_processing = FALSE
          /\ bt_index = -1
          /\ bt_thr = <<>>
    /\ c \notin {"train", "batch"} =>
          /\ tr_is_running = FALSE
          /\ tr_process = 0
          /\ tr_alive = {}
          /\ tr_mon = <<>>
          /\ tr_stop = "parked"
          /\ tr_results = <<>>
          /\ tr_completed = <<>>

AuxParked == AuxParkedExcept("none")

ReconParked ==
    /\ r_volume = NewVolume(FALSE)
    /\ r_calls = 0
    /\ r_mesh = NoResult
    /\ r_cloud = NoResult
    /\ r_prev_mesh = NoResult
    /\ r_integrated_since = FALSE

PipelineInit ==
    /\ strict_rotation \in BOOLEAN
    /\ export_env = DefaultExport
    /\ camera_metadata \in [Cameras -> MetadataKinds]
    /\ \E fs \in Manifests, a \in RunArgs \cup {AsyncArgs} : Constructed(fs, a)
    /\ run_no = 1
    /\ reports = {}

Init ==
    /\ HAS_OPEN3D \in BOOLEAN
    /\ PipelineInit
    /\ ThreadParked
    /\ ReconParked
    /\ AuxParked

\* the run has ended: run_reconstruction returned or raised
Ended == pc \in {"returned", "raised"}

Return(res, oc) ==
    /\ result' = res
    /\ outcome' = oc
    /\ pc' = "returned"
    /\ reports' = IF args.via_async THEN reports
                  ELSE reports \cup {[seen |-> caller_sees(res, "returned"),
                                      outcome |-> oc]}

Raise ==
    /\ result' = NoResult
    /\ outcome' = "Failed"
    /\ pc' = "raised"
    /\ reports' = IF args.via_async THEN reports
                  ELSE reports \cup {[seen |-> caller_sees(NoResult, "raised"),
                                      outcome |-> "Failed"]}

----------------------------------------------------------------------------
(* Actions *)

\* lines 145-169: the engine check and the set-up of the loop
Start ==
    /\ pc = "idle"
    /\ IF ~reconstructor_present
       THEN /\ Return(NoneResult, "Failed")
            /\ UNCHANGED <<i, processed_count, failed_count>>
       ELSE /\ pc' = "poll"
            /\ i' = 0
            /\ processed_count' = 0
            /\ failed_count' = 0
            /\ UNCHANGED <<result, outcome, reports>>
    /\ UNCHANGED <<HAS_OPEN3D, progress, on_frame_log, poll_count,
                   strict_rotation, export_env, frames,
                   camera_metadata, volume,
                   args, cancel_requested, cam_idx, run_no, unit_log, polled,
                   extract_calls, cancel_at, async_event>>
    /\ UNCHANGED <<thread_vars, recon_vars, aux_vars>>

\* lines 171-194: the head of one loop iteration: the cancel poll, then the
\* head pose of the frame
Poll ==
    /\ pc = "poll"
    /\ i < total_processing
    /\ poll_count' = poll_count + 1
    /\ IF cancel_seen
       THEN /\ Return(NoneResult, "Cancelled")
            /\ UNCHANGED <<cam_idx, polled, progress, on_frame_log>>
       ELSE /\ polled' = polled \cup {i}
            /\ on_frame_log' = Append(on_frame_log, current_real_index(i))
            /\ progress' = Append(progress, progress_value(i))
            /\ IF pose_read_raises(processing_frame(i))
               THEN Raise /\ UNCHANGED cam_idx
               ELSE /\ pc' = "cams"
                    /\ cam_idx' = 1
                    /\ UNCHANGED <<result, outcome, reports>>
    /\ UNCHANGED <<HAS_OPEN3D, strict_rotation, export_env, frames,
                   camera_metadata, volume,
                   args, cancel_requested, i, processed_count, failed_count,
                   run_no, unit_log, extract_calls, cancel_at, async_event>>
    /\ UNCHANGED <<thread_vars, recon_vars, aux_vars>>

\* lines 196-271: one camera of the current frame
ProcessCamera ==
    /\ pc = "cams"
    /\ LET cam == cameras_to_process[cam_idx]
           frame == processing_frame(i)
           verdict == unit_verdict(frame[cam], final_pose(frame, cam), i)
           ob == [run |-> run_no, frame |-> processing_frames[i + 1], cam |-> cam,
                  pose |-> final_pose(frame, cam)]
       IN  /\ unit_log' = Append(unit_log,
                  [i |-> i, frame |-> processing_frames[i + 1], cam |-> cam,
                   data |-> frame[cam],
                   pose |-> IF frame[cam] = "ok" THEN final_pose(frame, cam)
                            ELSE "unused",
                   verdict |-> verdict])
           /\ volume' = IF verdict = "integrated"
                        THEN integrate_frame(volume, ob) ELSE volume
           /\ processed_count' = IF verdict = "integrated"
                                 THEN processed_count + 1 ELSE processed_count
           /\ failed_count' = IF verdict = "failed"
                              THEN failed_count + 1 ELSE failed_count
    /\ IF cam_idx < Len(cameras_to_process)
       THEN cam_idx' = cam_idx + 1 /\ UNCHANGED <<i, pc>>
       ELSE cam_idx' = 1 /\ i' = i + 1 /\ pc' = "poll"
    /\ UNCHANGED <<HAS_OPEN3D, progress, on_frame_log, poll_count,
                   strict_rotation, export_env, frames,
                   camera_metadata, args,
                   cancel_requested, result, outcome, run_no, polled,
                   extract_calls, cancel_at, async_event, reports>>
    /\ UNCHANGED <<thread_vars, recon_vars, aux_vars>>

\* lines 273-323: the loop is exhausted: extract the mesh and return the result
Extract ==
    /\ pc = "poll"
    /\ i >= total_processing
    /\ extract_calls' = extract_calls + 1
    /\ Return([kind |-> "dict",
               mesh |-> extract_mesh(volume),
               processed_frames |-> processed_count,
               failed_frames |-> failed_count,
               output_path |-> export_mesh(args.on_log, export_env)],
              "Completed")
    /\ UNCHANGED <<HAS_OPEN3D, progress, on_frame_log, poll_count,
                   strict_rotation, export_env, frames,
                   camera_metadata, volume,
                   args, cancel_requested, i, cam_idx, processed_count,
                   failed_count, run_no, unit_log, polled, cancel_at,
                   async_event>>
    /\ UNCHANGED <<thread_vars, recon_vars, aux_vars>>

\* the caller's thread sets the boolean that is_cancelled() reads
RequestCancel ==
    /\ pc \in {"poll", "cams"}
    /\ args.is_cancelled
    /\ ~cancel_requested
    /\ cancel_requested' = TRUE
    /\ cancel_at' = [requested |-> TRUE,
                     k |-> IF pc = "cams" THEN i ELSE i - 1,
                     inflight |-> (pc = "cams")]
    /\ UNCHANGED <<HAS_OPEN3D, progress, on_frame_log, poll_count,
                   strict_rotation, export_env, frames,
                   camera_metadata, volume,
                   args, pc, i, cam_idx, processed_count, failed_count, result,
                   outcome, run_no, unit_log, polled, extract_calls,
                   async_event, reports>>
    /\ UNCHANGED <<thread_vars, recon_vars, aux_vars>>

\* AsyncQuestReconstruction.run, lines 348-355: on_finished(result), or
\* on_error(str(e)) for an exception
AsyncReport ==
    /\ Ended
    /\ args.via_async
    /\ async_event = "none"
    /\ async_event' = IF pc = "raised" THEN "on_error" ELSE "on_finished"
    /\ reports' = reports \cup
          {[seen |-> IF pc = "raised" THEN "on_error"
                     ELSE IF result.kind = "None" THEN "on_finished(None)"
                     ELSE "on_finished(dict)",
            outcome |-> outcome]}
    /\ UNCHANGED <<HAS_OPEN3D, progress, on_frame_log, poll_count,
                   strict_rotation, export_env, frames,
                   camera_metadata, volume,
                   args, cancel_requested, pc, i, cam_idx, processed_count,
                   failed_count, result, outcome, run_no, unit_log, polled,
                   extract_calls, cancel_at>>
    /\ UNCHANGED <<thread_vars, recon_vars, aux_vars>>

\* the locals and the history of a run, as a new call finds them
FreshCall(a) ==
    /\ args' = a
    /\ cancel_requested' = FALSE
    /\ pc' = "idle"
    /\ i' = 0
    /\ cam_idx' = 1
    /\ processed_count' = 0
    /\ failed_count' = 0
    /\ result' = NoResult
    /\ outcome' = "none"
    /\ unit_log' = <<>>
    /\ polled' = {}
    /\ extract_calls' = 0
    /\ cancel_at' = NotRequested
    /\ async_event' = "none"
    /\ progress' = <<>>
    /\ on_frame_log' = <<>>
    /\ poll_count' = 0
    /\ run_no' = run_no + 1

\* the caller calls run_reconstruction again on the same pipeline object:
\* self.reconstructor, built once by __init__ (line 30), is the one of the
\* run before
RunAgain ==
    /\ Ended
    /\ ~args.via_async
    /\ run_no < MaxRuns
    /\ \E a \in RunArgs : FreshCall(a)
    /\ UNCHANGED <<HAS_OPEN3D, strict_rotation, export_env, frames,
                   camera_metadata, volume,
                   reports>>
    /\ UNCHANGED <<thread_vars, recon_vars, aux_vars>>

\* the program is started again on the same project, on an installation with
\* or without the engine: a new pipeline object with a new reconstructor
NewProcess ==
    /\ Ended
    /\ ~args.via_async
    /\ run_no < MaxRuns
    /\ HAS_OPEN3D' \in BOOLEAN
    /\ volume' = NewVolume(HAS_OPEN3D')
    /\ \E a \in RunArgs : FreshCall(a)
    /\ UNCHANGED <<strict_rotation, export_env, frames, camera_metadata,
                   reports>>
    /\ UNCHANGED <<thread_vars, recon_vars, aux_vars>>

Next ==
    \/ Start
    \/ Poll
    \/ ProcessCamera
    \/ Extract
    \/ RequestCancel
    \/ AsyncReport

Spec == Init /\ [][Next]_vars

\* several runs in one behaviour, over short manifests with finite camera
\* metadata
InitRuns ==
    /\ Init
    /\ Len(frames) <= RunsFrames
    /\ camera_metadata = [c \in Cameras |-> "finite"]
    /\ ~args.via_async

NextRuns ==
    \/ Start
    \/ Poll
    \/ ProcessCamera
    \/ Extract
    \/ RequestCancel
    \/ RunAgain
    \/ NewProcess

SpecRuns == InitRuns /\ [][NextRuns]_vars

\* run_reconstruction called with a stride and a frame range: manifests of
\* regular frames, or with a last frame whose left image is missing; a
\* start_frame from -1 to the length of the manifest; an end_frame that is
\* None, -2 or from 0 to the length of the manifest
InitSelect ==
    /\ HAS_OPEN3D = TRUE
    /\ strict_rotation = FALSE
    /\ export_env = DefaultExport
    /\ camera_metadata = [c \in Cameras |-> "finite"]
    /\ \E n \in 0..SelectFrames, last \in {"ok", "no_rgb"} :
          \E a \in [camera : CameraModes, frame_interval : 1..MaxStride,
                    start_frame : -1..SelectFrames,
                    end_frame : {NoEnd, -2} \cup 0..SelectFrames,
                    is_cancelled : BOOLEAN, via_async : {FALSE},
                    on_log : {TRUE}] :
              Constructed([j \in 1..n |->
                              IF j = n THEN [RegularFrame EXCEPT !.left = last]
                              ELSE RegularFrame], a)
    /\ run_no = 1
    /\ reports = {}
    /\ ThreadParked
    /\ ReconParked
    /\ AuxParked

NextSelect ==
    \/ Start
    \/ Poll
    \/ ProcessCamera
    \/ Extract
    \/ RequestCancel

SpecSelect == InitSelect /\ [][NextSelect]_vars

\* run_reconstruction called with or without on_log, with save_mesh set or
\* not, on a disk where the mesh file can be written or not
InitExport ==
    /\ HAS_OPEN3D = TRUE
    /\ strict_rotation = FALSE
    /\ export_env \in [save_mesh : BOOLEAN, writable : BOOLEAN]
    /\ camera_metadata = [c \in Cameras |-> "finite"]
    /\ \E fs \in {m \in SmallManifests : Len(m) <= RunsFrames},
          a \in [camera : CameraModes, frame_interval : {1}, start_frame : {0},
                 end_frame : {NoEnd}, is_cancelled : {FALSE},
                 via_async : {FALSE}, on_log : BOOLEAN] :
          Constructed(fs, a)
    /\ run_no = 1
    /\ reports = {}
    /\ ThreadParked
    /\ ReconParked
    /\ AuxParked

NextExport ==
    \/ Start
    \/ Poll
    \/ ProcessCamera
    \/ Extract

SpecExport == InitExport /\ [][NextExport]_vars

----------------------------------------------------------------------------
(* ReconstructionThread (gui.py) *)

\* a frame of frames_data as the loop body meets it: integrated; skipped for
\* a missing image (line 81); skipped for unusable intrinsics (line 97); an
\* exception (a pose that does not reshape to 4x4, a depth file that cannot
\* be opened, a buffer of the wrong size)
ThreadFrameKinds == {"ok", "no_image", "bad_intrinsics", "raises"}

ThreadManifests == UNION {[1..n -> ThreadFrameKinds] : n \in 0..ThreadFrames}

PipelineParked ==
    /\ strict_rotation = FALSE
    /\ export_env = DefaultExport
    /\ camera_metadata = [c \in Cameras |-> "finite"]
    /\ frames = <<>>
    /\ args = AsyncArgs
    /\ volume = NewVolume(FALSE)
    /\ cancel_requested = FALSE
    /\ pc = "parked"
    /\ i = 0
    /\ cam_idx = 1
    /\ processed_count = 0
    /\ failed_count = 0
    /\ result = NoResult
    /\ outcome = "none"
    /\ unit_log = <<>>
    /\ polled = {}
    /\ extract_calls = 0
    /\ cancel_at = NotRequested
    /\ async_event = "none"
    /\ progress = <<>>
    /\ on_frame_log = <<>>
    /\ poll_count = 0
    /\ run_no = 1
    /\ reports = {}

\* the state after ReconstructionThread.__init__
InitThread ==
    /\ HAS_OPEN3D \in BOOLEAN
    /\ PipelineParked
    /\ ReconParked
    /\ AuxParked
    /\ t_frames \in ThreadManifests
    /\ t_is_running = TRUE
    /\ t_pc = "new"
    /\ t_i = 0
    /\ t_volume = NewVolume(FALSE)
    /\ t_events = <<>>
    /\ t_extract_calls = 0
    /\ t_progress = <<>>
    /\ t_stop_at = -1

\* lines 44-59: the thread's own reconstructor, and the frame list
ThreadStart ==
    /\ t_pc = "new"
    /\ t_volume' = NewVolume(HAS_OPEN3D)
    /\ t_pc' = "loop"
    /\ UNCHANGED <<t_frames, t_is_running, t_i, t_events, t_extract_calls,
                   t_progress,
                   t_stop_at>>
    /\ UNCHANGED <<HAS_OPEN3D, pipeline_vars, recon_vars, aux_vars>>

\* lines 61-125: one iteration that finds _is_running set; on_progress is
\* called with (i + 1) / total_frames after the frame was integrated (125),
\* not for a frame the loop skips by 'continue' (83, 99)
ThreadFrame ==
    /\ t_pc = "loop"
    /\ t_i < Len(t_frames)
    /\ t_is_running
    /\ LET kind == t_frames[t_i + 1]
       IN  /\ t_volume' = IF kind = "ok"
                          THEN integrate_frame(t_volume, [frame |-> t_i])
                          ELSE t_volume
           /\ t_progress' = IF kind = "ok"
                            THEN Append(t_progress, <<t_i + 1, Len(t_frames)>>)
                            ELSE t_progress
           /\ IF kind = "raises"
              THEN /\ t_events' = Append(t_events, [event |-> "on_error"])
                   /\ t_pc' = "done"
                   /\ UNCHANGED t_i
              ELSE /\ t_i' = t_i + 1
                   /\ UNCHANGED <<t_events, t_pc>>
    /\ UNCHANGED <<t_frames, t_is_running, t_extract_calls, t_stop_at>>
    /\ UNCHANGED <<HAS_OPEN3D, pipeline_vars, recon_vars, aux_vars>>

\* lines 61-63 and 127-131: the loop ends, by exhaustion or by the break on a
\* cleared _is_running; the mesh is extracted and handed to on_finished
ThreadFinish ==
    /\ t_pc = "loop"
    /\ t_i >= Len(t_frames) \/ ~t_is_running
    /\ t_extract_calls' = t_extract_calls + 1
    /\ t_events' = Append(t_events,
                          [event |-> "on_finished", mesh |-> extract_mesh(t_volume)])
    /\ t_pc' = "done"
    /\ UNCHANGED <<t_frames, t_is_running, t_i, t_volume, t_progress,
                   t_stop_at>>
    /\ UNCHANGED <<HAS_OPEN3D, pipeline_vars, recon_vars, aux_vars>>

\* lines 137-138: stop(), called from another thread
ThreadStop ==
    /\ t_pc \in {"new", "loop"}
    /\ t_is_running
    /\ t_is_running' = FALSE
    /\ t_stop_at' = t_i
    /\ UNCHANGED <<t_frames, t_pc, t_i, t_volume, t_events, t_extract_calls,
                   t_progress>>
    /\ UNCHANGED <<HAS_OPEN3D, pipeline_vars, recon_vars, aux_vars>>

NextThread ==
    \/ ThreadStart
    \/ ThreadFrame
    \/ ThreadFinish
    \/ ThreadStop

SpecThread == InitThread /\ [][NextThread]_vars

----------------------------------------------------------------------------
(* A QuestReconstructor driven directly: integrate_frame and the two          *)
(* extractions in any order (tests/test_reconstruction.py)                    *)

Observations == 1..MaxObs

\* the state after QuestReconstructor.__init__
InitRecon ==
    /\ HAS_OPEN3D \in BOOLEAN
    /\ PipelineParked
    /\ ThreadParked
    /\ AuxParked
    /\ r_volume = NewVolume(HAS_OPEN3D)
    /\ r_calls = 0
    /\ r_mesh = NoResult
    /\ r_cloud = NoResult
    /\ r_prev_mesh = NoResult
    /\ r_integrated_since = FALSE

ReconIntegrate ==
    /\ \E ob \in Observations :
          r_volume' = integrate_frame(r_volume, [frame |-> ob])
    /\ r_calls' = IF r_calls < MaxObs THEN r_calls + 1 ELSE r_calls
    /\ r_integrated_since' = TRUE
    /\ UNCHANGED <<r_mesh, r_cloud, r_prev_mesh>>
    /\ UNCHANGED <<HAS_OPEN3D, pipeline_vars, thread_vars, aux_vars>>

ReconExtractMesh ==
    /\ r_mesh' = extract_mesh(r_volume)
    /\ r_volume' = volume_after_extract(r_volume)
    /\ r_prev_mesh' = IF r_integrated_since THEN NoResult ELSE r_mesh
    /\ r_integrated_since' = FALSE
    /\ UNCHANGED <<r_calls, r_cloud>>
    /\ UNCHANGED <<HAS_OPEN3D, pipeline_vars, thread_vars, aux_vars>>

ReconExtractPointCloud ==
    /\ r_cloud' = extract_point_cloud(r_volume)
    /\ r_volume' = volume_after_extract(r_volume)
    /\ UNCHANGED <<r_calls, r_mesh, r_prev_mesh, r_integrated_since>>
    /\ UNCHANGED <<HAS_OPEN3D, pipeline_vars, thread_vars, aux_vars>>

NextRecon ==
    \/ ReconIntegrate
    \/ ReconExtractMesh
    \/ ReconExtractPointCloud

SpecRecon == InitRecon /\ [][NextRecon]_vars

----------------------------------------------------------------------------
(* Floating-point values of the depth path                                    *)
(*                                                                            *)
(* A float is NaN, +Inf, -Inf or a finite value (n/d) * 10^e with n/d in      *)
(* lowest terms, d > 0.  Rounding is not modelled; the range of float32 is.   *)

Abs(a) == IF a < 0 THEN -a ELSE a

RECURSIVE GCD(_, _)
GCD(a, b) == IF b = 0 THEN a ELSE GCD(b, a % b)

\* the finite value (n/d) * 10^e
Fl(n, d, e) ==
    LET g == GCD(Abs(n), Abs(d))
        sg == IF d < 0 THEN -1 ELSE 1
    IN  IF n = 0 THEN [k |-> "fin", n |-> 0, d |-> 1, e |-> 0]
        ELSE [k |-> "fin", n |-> (sg * n) \div g, d |-> (sg * d) \div g, e |-> e]

NaN == [k |-> "nan", n |-> 0, d |-> 1, e |-> 0]
PosInf == [k |-> "pinf", n |-> 1, d |-> 1, e |-> 0]
NegInf == [k |-> "ninf", n |-> -1, d |-> 1, e |-> 0]

IsFinite(v) == v.k = "fin"

\* a < b for finite a, b; mantissas lie far inside 10^-38 .. 10^38, so the
\* value with the larger exponent decides by its sign
FlLess(a, b) ==
    IF a.e = b.e THEN a.n * b.d < b.n * a.d
    ELSE IF a.e > b.e THEN a.n < 0
    ELSE b.n > 0

FlNeg(a) == Fl(-a.n, a.d, a.e)

\* a + b and a - b for finite values of one exponent (or zero)
FlAdd(a, b) ==
    IF a.n = 0 THEN b
    ELSE IF b.n = 0 THEN a
    ELSE Fl(a.n * b.d + b.n * a.d, a.d * b.d, a.e)

FlSub(a, b) == FlAdd(a, FlNeg(b))

FlMul(a, b) == Fl(a.n * b.n, a.d * b.d, a.e + b.e)

\* a / b for finite a and finite b # 0
FlDiv(a, b) == Fl(a.n * b.d, a.d * b.n, a.e - b.e)

\* the largest finite float32, 3.4028e38
Float32Max == Fl(34028, 10000, 38)

\* conversion of a float64 value to float32: out of range becomes +-Inf
astype_float32(v) ==
    IF ~IsFinite(v) THEN v
    ELSE IF FlLess(Float32Max, v) THEN PosInf
    ELSE IF FlLess(v, FlNeg(Float32Max)) THEN NegInf
    ELSE v

\* np.nan_to_num(v, nan=, posinf=, neginf=)
nan_to_num(v, nan, posinf, neginf) ==
    CASE v.k = "nan" -> nan
      [] v.k = "pinf" -> posinf
      [] v.k = "ninf" -> neginf
      [] OTHER -> v

\* np.clip(v, lo, hi) of a finite value
clip(v, lo, hi) ==
    IF FlLess(v, lo) THEN lo ELSE IF FlLess(hi, v) THEN hi ELSE v

----------------------------------------------------------------------------
(* Depth linearization (quest_reconstruction_utils.py) and the depth the      *)
(* integrator accepts (reconstruction.py)                                     *)

Zero == Fl(0, 1, 0)
One == Fl(1, 1, 0)
Two == Fl(2, 1, 0)

\* compute_ndc_to_linear_depth_params(near, far) for a finite near and a far
\* that is finite and differs from near, or +Inf
compute_ndc_to_linear_depth_params(near, far) ==
    IF far.k = "pinf" \/ FlLess(far, near)
    THEN [x |-> FlMul(FlNeg(Two), near), y |-> FlNeg(One)]
    ELSE [x |-> FlDiv(FlMul(FlMul(FlNeg(Two), far), near), FlSub(far, near)),
          y |-> FlNeg(FlDiv(FlAdd(far, near), FlSub(far, near)))]

\* the Python float x as the operand of a ufunc over a buffer of this dtype:
\* a float64 buffer keeps it; with a float32 buffer it is cast to float32
\* unless numpy promotes by value and the value does not fit float32
scalar_operand(v, dtype, value_based) ==
    IF dtype = "float64" THEN v
    ELSE IF value_based /\ astype_float32(v) # v THEN v
    ELSE astype_float32(v)

\* np.divide(x, denom) of one element, denom finite and non-zero
divide(x, denom) ==
    CASE x.k = "fin" -> FlDiv(x, denom)
      [] x.k = "pinf" -> IF denom.n > 0 THEN PosInf ELSE NegInf
      [] x.k = "ninf" -> IF denom.n > 0 THEN NegInf ELSE PosInf
      [] OTHER -> NaN

\* to_linear_depth(d, x, y) of one element d in [0, 1]: x / (2 d - 1 + y)
\* written into a zero buffer of d's dtype where the denominator is non-zero
to_linear_depth(d, x, y, dtype, value_based) ==
    LET ndc == FlSub(FlMul(d, Two), One)
        denom == FlAdd(ndc, y)
        xs == scalar_operand(x, dtype, value_based)
        q == IF denom.n = 0 THEN Zero ELSE divide(xs, denom)
    IN  IF dtype = "float32" THEN astype_float32(q) ELSE q

\* convert_depth_to_linear of one element
convert_depth_to_linear(raw, near, far, dtype, value_based) ==
    LET depth_clamped == clip(nan_to_num(raw, Zero, One, Zero), Zero, One)
        p == compute_ndc_to_linear_depth_params(near, far)
        lin == to_linear_depth(depth_clamped, p.x, p.y, dtype, value_based)
        clean == nan_to_num(lin, Zero, Zero, Zero)
        nonneg == IF clean.n < 0 THEN Zero ELSE clean
    IN  astype_float32(nonneg)

\* depth_scale=1000.0 of RGBDImage.create_from_color_and_depth
depth_scale == Fl(1000, 1, 0)

\* self.depth_max = config.get("depth_max", 3.0), passed as depth_trunc
depth_max == Fl(3, 1, 0)

\* the depth of one sample in the RGBD image: the value divided by
\* depth_scale, set to 0 when it reaches depth_trunc
rgbd_depth(v, scale, trunc) ==
    CASE v.k = "nan" -> NaN
      [] v.k = "pinf" -> Zero
      [] v.k = "ninf" -> NegInf
      [] OTHER -> LET z == FlDiv(v, scale)
                  IN  IF FlLess(z, trunc) THEN z ELSE Zero

\* the volume fuses a sample as surface evidence when its depth is positive
is_surface(z) == IsFinite(z) /\ z.n > 0

\* raw samples: the non-finite values, values outside [0, 1], the ends and
\* interior points of [0, 1]
RawSamples ==
    {NaN, PosInf, NegInf, Fl(-5, 1, 0), Zero, Fl(1, 4, 0), Fl(1, 2, 0),
     Fl(3, 4, 0), One, Fl(5, 1, 0)}

\* (near, far) with 0 < near < far: the defaults of run_reconstruction
\* (0.1, 3.0), the planes of verify_fix.py (0.1, 10.0), and planes of
\* 1e38..1e40 about the largest float32
RegularPlanes ==
    {<<Fl(1, 10, 0), Fl(3, 1, 0)>>, <<Fl(1, 10, 0), Fl(10, 1, 0)>>,
     <<Fl(1, 1, 0), Fl(2, 1, 0)>>, <<Fl(1, 1, 38), Fl(2, 1, 38)>>,
     <<Fl(10, 1, 38), Fl(100, 1, 38)>>}

\* a far plane that is infinite or nearer than the near plane
DegeneratePlanes ==
    {<<Fl(1, 10, 0), PosInf>>, <<Fl(3, 1, 0), Fl(1, 10, 0)>>,
     <<Fl(1, 1, 0), PosInf>>, <<Fl(1, 1, 38), PosInf>>,
     <<Fl(10, 1, 38), PosInf>>, <<Fl(100, 1, 38), Fl(10, 1, 38)>>}

Planes == RegularPlanes \cup DegeneratePlanes

IsDegenerate(near, far) == far.k = "pinf" \/ FlLess(far, near)

InitDepth ==
    /\ HAS_OPEN3D = TRUE
    /\ PipelineParked
    /\ ThreadParked
    /\ ReconParked
    /\ AuxParkedExcept("depth")
    /\ dp_raw \in RawSamples
    /\ \E pl \in Planes : dp_near = pl[1] /\ dp_far = pl[2]
    /\ dp_dtype \in {"float32", "float64"}
    /\ dp_value_based \in BOOLEAN
    /\ dp_info \in BOOLEAN
    /\ dp_pc = "raw"
    /\ dp_linear = NaN
    /\ dp_z = NaN

\* run_reconstruction step 2: linearize when depth_info is present, else
\* hand the buffer on as it is
DepthLinearize ==
    /\ dp_pc = "raw"
    /\ dp_linear' = IF dp_info
                    THEN convert_depth_to_linear(dp_raw, dp_near, dp_far,
                                                 dp_dtype, dp_value_based)
                    ELSE dp_raw
    /\ dp_pc' = "linear"
    /\ UNCHANGED <<dp_raw, dp_near, dp_far, dp_dtype, dp_value_based, dp_info,
                   dp_z>>
    /\ UNCHANGED <<HAS_OPEN3D, pipeline_vars, thread_vars, recon_vars, conv_vars, intr_vars,
                   load_vars, app_vars>>

\* integrate_frame: the RGBD image is built from depth_linear
DepthIntegrate ==
    /\ dp_pc = "linear"
    /\ dp_z' = rgbd_depth(dp_linear, depth_scale, depth_max)
    /\ dp_pc' = "integrated"
    /\ UNCHANGED <<dp_raw, dp_near, dp_far, dp_dtype, dp_value_based, dp_info,
                   dp_linear>>
    /\ UNCHANGED <<HAS_OPEN3D, pipeline_vars, thread_vars, recon_vars, conv_vars, intr_vars,
                   load_vars, app_vars>>

NextDepth ==
    \/ DepthLinearize
    \/ DepthIntegrate

SpecDepth == InitDepth /\ [][NextDepth]_vars

----------------------------------------------------------------------------
(* Transforms.convert_coordinate_system (quest_reconstruction_utils.py)       *)
(*                                                                            *)
(* A position is an integer 3-vector.  A quaternion (x, y, z, w) is an        *)
(* integer 4-vector; scipy's Rotation holds it normalised, which is written   *)
(* as the vector divided by the gcd of its components with unit = TRUE.  A    *)
(* rotation matrix is an integer matrix over a common denominator.            *)

CoordinateSystem == {"UNITY", "OPEN3D", "COLMAP"}

Diag(a, b, c) == <<<<a, 0, 0>>, <<0, b, 0>>, <<0, 0, c>>>>

MatMul(A, B) ==
    [r \in 1..3 |-> [c \in 1..3 |->
        A[r][1] * B[1][c] + A[r][2] * B[2][c] + A[r][3] * B[3][c]]]

Transpose(A) == [r \in 1..3 |-> [c \in 1..3 |-> A[c][r]]]

\* a variant of basis in which COLMAP flips the z axis as well
basis_colmap_flips_z(cs) ==
    CASE cs = "UNITY" -> Diag(1, 1, 1)
      [] cs = "OPEN3D" -> Diag(1, 1, -1)
      [] cs = "COLMAP" -> Diag(1, -1, -1)

\* basis(cs) of get_coordinate_transform_matrix
basis(cs) ==
    CASE cs = "UNITY" -> Diag(1, 1, 1)
      [] cs = "OPEN3D" -> Diag(1, 1, -1)
      [] cs = "COLMAP" -> Diag(1, -1, 1)

\* a variant of get_coordinate_transform_matrix that ignores the source basis
get_coordinate_transform_matrix_target_only(source, target) ==
    basis(target)

\* R_target @ R_source.T
get_coordinate_transform_matrix(source, target) ==
    MatMul(basis(target), Transpose(basis(source)))

get_camera_basis_matrix(cs) ==
    CASE cs = "UNITY" -> Diag(1, 1, 1)
      [] cs = "OPEN3D" -> Diag(1, -1, -1)
      [] cs = "COLMAP" -> Diag(1, 1, 1)

\* the unit quaternion in the direction of the integer vector q # 0
unit_quat(q) ==
    LET g == GCD(GCD(Abs(q[1]), Abs(q[2])), GCD(Abs(q[3]), Abs(q[4])))
    IN  [v |-> <<q[1] \div g, q[2] \div g, q[3] \div g, q[4] \div g>>,
         unit |-> TRUE]

\* R.from_quat(q).as_matrix(): the quaternion is normalised, so the matrix is
\* num / den with den = |q|^2
from_quat_as_matrix(q) ==
    LET x == q[1]
        y == q[2]
        z == q[3]
        w == q[4]
    IN  [num |-> << <<w*w + x*x - y*y - z*z, 2*(x*y - w*z), 2*(x*z + w*y)>>,
                    <<2*(x*y + w*z), w*w - x*x + y*y - z*z, 2*(y*z - w*x)>>,
                    <<2*(x*z - w*y), 2*(y*z + w*x), w*w - x*x - y*y + z*z>> >>,
         den |-> x*x + y*y + z*z + w*w]

\* R.from_matrix(m).as_quat(): the component of largest magnitude is chosen
\* by the largest of the diagonal entries and the trace, the others follow
\* from the off-diagonal sums and differences; the result is normalised
from_matrix_as_quat(m) ==
    LET M == m.num
        tr == M[1][1] + M[2][2] + M[3][3]
        decision == <<M[1][1], M[2][2], M[3][3], tr>>
        choice == CHOOSE c \in 1..4 :
                      /\ \A o \in 1..4 : decision[c] >= decision[o]
                      /\ \A o \in 1..(c - 1) : decision[o] < decision[c]
        ii == choice
        jj == (ii % 3) + 1
        kk == (jj % 3) + 1
        q == IF choice = 4
             THEN <<M[3][2] - M[2][3], M[1][3] - M[3][1], M[2][1] - M[1][2],
                    m.den + tr>>
             ELSE [c \in 1..4 |->
                     IF c = ii THEN m.den - tr + 2 * M[ii][ii]
                     ELSE IF c = jj THEN M[jj][ii] + M[ii][jj]
                     ELSE IF c = kk THEN M[kk][ii] + M[ii][kk]
                     ELSE M[kk][jj] - M[jj][kk]]
    IN  unit_quat(q)

ZeroQuat == <<0, 0, 0, 0>>

\* convert_coordinate_system(target, is_camera) of the Transforms t
convert_coordinate_system(t, target, is_camera) ==
    IF t.coordinate_system = target THEN t
    ELSE IF t.rotations.v = ZeroQuat THEN [coordinate_system |-> "raises"]
    ELSE
    LET R_conv == get_coordinate_transform_matrix(t.coordinate_system, target)
        p == t.positions
        converted_positions ==
            [r \in 1..3 |-> R_conv[r][1] * p[1] + R_conv[r][2] * p[2]
                            + R_conv[r][3] * p[3]]
        rot == from_quat_as_matrix(t.rotations.v)
        rotation_matrices ==
            IF is_camera
            THEN MatMul(rot.num,
                        Transpose(get_camera_basis_matrix(t.coordinate_system)))
            ELSE rot.num
        conjugated == MatMul(MatMul(R_conv, rotation_matrices), Transpose(R_conv))
        converted_rotations ==
            IF is_camera
            THEN MatMul(conjugated, get_camera_basis_matrix(target))
            ELSE conjugated
    IN  [coordinate_system |-> target,
         positions |-> converted_positions,
         rotations |-> from_matrix_as_quat([num |-> converted_rotations,
                                            den |-> rot.den])]

\* run_reconstruction, line 239: the camera pose in Unity world space,
\* converted for the integrator
open3d_transform(unity_transform) ==
    convert_coordinate_system(unity_transform, "OPEN3D", FALSE)

\* position components and quaternions offered: the axis rotations, the
\* quaternions of negative w, non-unit and generic ones, and the zero vector
Coords == {-1, 0, 2}

Positions == {<<a, b, c>> : a \in {0, 2}, b \in Coords, c \in Coords}

Quaternions ==
    {<<0, 0, 0, 1>>, <<0, 0, 0, -1>>, <<0, 0, 0, 2>>, <<1, 0, 0, 0>>,
     <<0, 1, 0, 0>>, <<0, 0, -1, 0>>, <<1, 0, 0, 1>>, <<0, 1, 0, -1>>,
     <<1, 1, 1, 1>>, <<1, -1, 1, -1>>, <<1, 2, 2, 4>>, <<2, -1, 0, 3>>,
     <<3, 1, 0, 0>>, <<0, 1, 3, -1>>, <<-2, -3, 1, -1>>, ZeroQuat}

InitConv ==
    /\ HAS_OPEN3D = TRUE
    /\ PipelineParked
    /\ ThreadParked
    /\ ReconParked
    /\ AuxParkedExcept("conv")
    /\ cv_target \in CoordinateSystem
    /\ cv_is_camera \in BOOLEAN
    /\ cv_orig \in [coordinate_system : CoordinateSystem,
                    positions : Positions,
                    rotations : [v : Quaternions, unit : {FALSE}]]
    /\ cv_cur = cv_orig
    /\ cv_pc = "start"

\* t.convert_coordinate_system(B, is_camera)
ConvertThere ==
    /\ cv_pc = "start"
    /\ cv_cur' = convert_coordinate_system(cv_cur, cv_target, cv_is_camera)
    /\ cv_pc' = IF cv_cur'.coordinate_system = "raises" THEN "raised" ELSE "there"
    /\ UNCHANGED <<cv_target, cv_is_camera, cv_orig>>
    /\ UNCHANGED <<HAS_OPEN3D, pipeline_vars, thread_vars, recon_vars, depth_vars, intr_vars,
                   load_vars, app_vars>>

\* the result converted back to the coordinate system it came from
ConvertBack ==
    /\ cv_pc = "there"
    /\ cv_cur' = convert_coordinate_system(cv_cur, cv_orig.coordinate_system,
                                           cv_is_camera)
    /\ cv_pc' = "back"
    /\ UNCHANGED <<cv_target, cv_is_camera, cv_orig>>
    /\ UNCHANGED <<HAS_OPEN3D, pipeline_vars, thread_vars, recon_vars, depth_vars, intr_vars,
                   load_vars, app_vars>>

\* run_reconstruction, lines 231-243: the Transforms built from
\* unity_camera_pose (tagged UNITY, its quaternion that of a rotation matrix)
\* is converted, and extrinsics_cw[0] of the result goes to integrate_frame
HandToIntegrator ==
    /\ cv_pc = "start"
    /\ cv_orig.coordinate_system = "UNITY"
    /\ cv_orig.rotations.v # ZeroQuat
    /\ cv_cur' = open3d_transform(cv_cur)
    /\ cv_pc' = "handed"
    /\ UNCHANGED <<cv_target, cv_is_camera, cv_orig>>
    /\ UNCHANGED <<HAS_OPEN3D, pipeline_vars, thread_vars, recon_vars, depth_vars, intr_vars,
                   load_vars, app_vars>>

NextConv ==
    \/ ConvertThere
    \/ ConvertBack
    \/ HandToIntegrator

SpecConv == InitConv /\ [][NextConv]_vars

----------------------------------------------------------------------------
(* QuestReconstructionPipeline.get_camera_intrinsics *)

Num(a) == Fl(a, 1, 0)

\* compute_depth_camera_params; a zero divisor raises ZeroDivisionError
compute_depth_camera_params(left, right, top, bottom, width, height) ==
    IF FlAdd(right, left).n = 0 \/ FlAdd(top, bottom).n = 0
    THEN [kind |-> "raises"]
    ELSE [kind |-> "ok",
          fx |-> FlDiv(width, FlAdd(right, left)),
          fy |-> FlDiv(height, FlAdd(top, bottom)),
          cx |-> FlDiv(FlMul(width, right), FlAdd(right, left)),
          cy |-> FlDiv(FlMul(height, top), FlAdd(top, bottom))]

\* the defaults of intrinsics_obj.get(...): 867.0, 867.0, 640.0, 640.0
NominalIntrinsics ==
    [kind |-> "ok", fx |-> Num(867), fy |-> Num(867), cx |-> Num(640),
     cy |-> Num(640)]

\* the fallback branch: each stored value, or its default
stored_or_default(stored) ==
    [kind |-> "ok",
     fx |-> IF "fx" \in DOMAIN stored THEN stored.fx ELSE NominalIntrinsics.fx,
     fy |-> IF "fy" \in DOMAIN stored THEN stored.fy ELSE NominalIntrinsics.fy,
     cx |-> IF "cx" \in DOMAIN stored THEN stored.cx ELSE NominalIntrinsics.cx,
     cy |-> IF "cy" \in DOMAIN stored THEN stored.cy ELSE NominalIntrinsics.cy]

\* a variant of get_camera_intrinsics that prefers stored intrinsics
get_camera_intrinsics_stored_first(stored, depth_info) ==
    IF "fx" \in DOMAIN stored THEN stored_or_default(stored)
    ELSE IF depth_info.present /\ depth_info.width.n > 0 /\ depth_info.height.n > 0
    THEN compute_depth_camera_params(depth_info.fov_left, depth_info.fov_right,
             depth_info.fov_top, depth_info.fov_down, depth_info.width,
             depth_info.height)
    ELSE stored_or_default(stored)

\* get_camera_intrinsics(camera, depth_info) with stored =
\* camera_metadata[camera]['intrinsics']; a key missing from depth_info reads 0
get_camera_intrinsics(stored, depth_info) ==
    LET from_fov ==
            IF depth_info.present /\ depth_info.width.n > 0
               /\ depth_info.height.n > 0
            THEN compute_depth_camera_params(depth_info.fov_left,
                     depth_info.fov_right, depth_info.fov_top,
                     depth_info.fov_down, depth_info.width, depth_info.height)
            ELSE [kind |-> "ok", fx |-> Zero, fy |-> Zero, cx |-> Zero,
                  cy |-> Zero]
    IN  IF from_fov.kind = "raises" THEN from_fov
        ELSE IF from_fov.fx = Zero THEN stored_or_default(stored)
        ELSE from_fov

NoDepthInfo ==
    [present |-> FALSE, width |-> Zero, height |-> Zero, fov_left |-> Zero,
     fov_right |-> Zero, fov_top |-> Zero, fov_down |-> Zero]

Tangents == {Zero, Fl(1, 2, 0), One, Fl(-1, 2, 0)}

DepthInfos ==
    {NoDepthInfo}
    \cup [present : {TRUE}, width : {Zero, Num(640)},
          height : {Zero, Num(640), Num(480)},
          fov_left : Tangents, fov_right : Tangents,
          fov_top : {Zero, Fl(1, 2, 0), One}, fov_down : {Fl(1, 2, 0), One}]

\* camera_metadata[camera]['intrinsics']: absent, only fx, or all four
StoredIntrinsics ==
    {<<>>, [fx |-> Num(500)],
     [fx |-> Num(500), fy |-> Num(510), cx |-> Num(300), cy |-> Num(200)]}

InitIntr ==
    /\ HAS_OPEN3D = TRUE
    /\ PipelineParked
    /\ ThreadParked
    /\ ReconParked
    /\ AuxParkedExcept("intr")
    /\ ci_depth_info \in DepthInfos
    /\ ci_stored \in StoredIntrinsics
    /\ ci_result = [kind |-> "unset"]
    /\ ci_log = <<>>
    /\ ci_pc = "call"

\* the call; nothing in get_camera_intrinsics writes a log entry
GetIntrinsics ==
    /\ ci_pc = "call"
    /\ ci_result' = get_camera_intrinsics(ci_stored, ci_depth_info)
    /\ ci_pc' = IF ci_result'.kind = "raises" THEN "raised" ELSE "returned"
    /\ UNCHANGED <<ci_depth_info, ci_stored, ci_log>>
    /\ UNCHANGED <<HAS_OPEN3D, pipeline_vars, thread_vars, recon_vars,
                   depth_vars, conv_vars, load_vars, app_vars>>

NextIntr ==
    \/ GetIntrinsics

SpecIntr == InitIntr /\ [][NextIntr]_vars

----------------------------------------------------------------------------
(* Reading a project: frames.json as the orchestrator and the GUI worker      *)
(* load it, and a frame's payloads as the frame resolver returns them         *)

None == "None"

\* QuestReconstructionPipeline.__init__, lines 32-41: a missing file raises
\* FileNotFoundError; self.data.get needs a dict, a list has no get
pipeline_frames(file) ==
    CASE file.form = "missing" -> [kind |-> "raises", frames |-> <<>>]
      [] file.form = "list" -> [kind |-> "raises", frames |-> <<>>]
      [] file.form = "object" -> [kind |-> "ok", frames |-> file.frames]
      [] OTHER -> [kind |-> "ok", frames |-> <<>>]

\* ReconstructionThread.run, lines 48-59: a list is taken as it is, a dict
\* with a "frames" key gives that list, any other dict is kept as frames_data
thread_frames(file) ==
    CASE file.form = "missing" -> [kind |-> "raises", frames |-> <<>>]
      [] file.form = "list" -> [kind |-> "ok", frames |-> file.frames]
      [] file.form = "object" -> [kind |-> "ok", frames |-> file.frames]
      [] OTHER -> [kind |-> "dict", frames |-> <<>>]

\* a variant of process_quest_frame whose early return for a missing path
\* has two values
process_quest_frame_two_values(project_exists, payload, has_info) ==
    IF ~project_exists THEN <<None, None>>
    ELSE <<IF payload = "no_rgb" THEN None ELSE "rgb",
           IF payload = "no_depth" THEN None ELSE "depth",
           IF has_info THEN "depth_info" ELSE None>>

\* QuestImageProcessor.process_quest_frame(project_dir, frame, camera): the
\* decoded color image, the decoded depth buffer and the optional
\* depth-interpretation record; None for what could not be found
process_quest_frame(project_exists, payload, has_info) ==
    IF ~project_exists THEN <<None, None, None>>
    ELSE <<IF payload = "no_rgb" THEN None ELSE "rgb",
           IF payload = "no_depth" THEN None ELSE "depth",
           IF has_info THEN "depth_info" ELSE None>>

\* frames.json: missing, a plain list, an object with a "frames" key, an
\* object without one
ManifestFiles ==
    {[form |-> "missing", frames |-> <<>>]}
    \cup [form : {"list", "object", "object_without_frames"},
          frames : UNION {[1..n -> {RegularFrame,
                                    [RegularFrame EXCEPT !.pose = "missing"],
                                    [RegularFrame EXCEPT !.left = "no_rgb"]}]
                          : n \in 0..LoadFrames}]

InitLoad ==
    /\ HAS_OPEN3D = TRUE
    /\ PipelineParked
    /\ ThreadParked
    /\ ReconParked
    /\ AuxParkedExcept("load")
    /\ ld_file \in ManifestFiles
    /\ ld_pipeline = [kind |-> "unset", frames |-> <<>>]
    /\ ld_thread = [kind |-> "unset", frames |-> <<>>]
    /\ ld_frame \in [payload : {"ok", "no_rgb", "no_depth"}, has_info : BOOLEAN]
    /\ ld_resolved = <<>>

\* QuestReconstructionPipeline(project_dir, config_manager)
LoadPipeline ==
    /\ ld_pipeline.kind = "unset"
    /\ ld_pipeline' = pipeline_frames(ld_file)
    /\ UNCHANGED <<ld_file, ld_thread, ld_frame, ld_resolved>>
    /\ UNCHANGED <<HAS_OPEN3D, pipeline_vars, thread_vars, recon_vars,
                   depth_vars, conv_vars, intr_vars, app_vars>>

\* ReconstructionThread.run up to total_frames = len(frames_data)
LoadThread ==
    /\ ld_thread.kind = "unset"
    /\ ld_thread' = thread_frames(ld_file)
    /\ UNCHANGED <<ld_file, ld_pipeline, ld_frame, ld_resolved>>
    /\ UNCHANGED <<HAS_OPEN3D, pipeline_vars, thread_vars, recon_vars,
                   depth_vars, conv_vars, intr_vars, app_vars>>

\* process_quest_frame(project_dir, frame, camera=cam), as
\* verify_preview_fix.py and run_reconstruction (line 198) call it
ResolveFrame ==
    /\ ld_resolved = <<>>
    /\ ld_resolved' = process_quest_frame(ld_file.form # "missing",
                                          ld_frame.payload, ld_frame.has_info)
    /\ UNCHANGED <<ld_file, ld_pipeline, ld_thread, ld_frame>>
    /\ UNCHANGED <<HAS_OPEN3D, pipeline_vars, thread_vars, recon_vars,
                   depth_vars, conv_vars, intr_vars, app_vars>>

NextLoad ==
    \/ LoadPipeline
    \/ LoadThread
    \/ ResolveFrame

SpecLoad == InitLoad /\ [][NextLoad]_vars

----------------------------------------------------------------------------
(* ZipValidator.validate (ingestion.py)                                       *)
(*                                                                            *)
(* An entry name is written with the substrings of it that validate tests;    *)
(* a message is the sequence of the parts it is formatted from.               *)

\* lines 41, 46, 56, 57: holds are those of 'frames.json', 'rgb', 'image',
\* '.png', '.jpg', 'depth' that occur in the (lower-cased) name
EntryNames ==
    {[name |-> "frames.json", holds |-> {"frames.json"}, json |-> TRUE],
     [name |-> "hmd_poses.json", holds |-> {}, json |-> TRUE],
     [name |-> "raw_images/test.jpg", holds |-> {"image", ".jpg"},
      json |-> FALSE],
     [name |-> "depth_maps/test.png", holds |-> {"depth", ".png"},
      json |-> FALSE],
     [name |-> "depth_maps/test.raw", holds |-> {"depth"}, json |-> FALSE],
     [name |-> "left_camera_rgb/1.yuv", holds |-> {"rgb"}, json |-> FALSE]}

\* what zip_path can name: a file that is no ZIP, a ZIP whose directory
\* cannot be read, a ZIP of some of EntryNames and of filler further entries
\* that hold none of the substrings
Archives ==
    [form : {"not_zip", "unreadable"}, names : {{}}, filler : {0}]
    \cup [form : {"zip"}, names : SUBSET EntryNames,
          filler : {0, FlexibleCount, FlexibleCount + 1}]

\* ZipValidator.validate(zip_path), lines 25-77
validate(a) ==
    LET file_list_len == Cardinality(a.names) + a.filler
        frames_json_found == \E f \in a.names : "frames.json" \in f.holds
        json_files == {f \in a.names : f.json}
        has_images ==
            \E f \in a.names : f.holds \cap {"rgb", "image", ".png", ".jpg"} # {}
    IN  CASE a.form = "not_zip" -> <<FALSE, <<"Not a valid ZIP file.">>>>
          [] a.form = "unreadable" ->
                 <<FALSE, <<"Validation error: ", "str(e)">>>>
          [] OTHER ->
                 IF ~frames_json_found /\ json_files = {}
                 THEN <<FALSE,
                        <<"Missing metadata file (frames.json or similar)">>>>
                 ELSE IF has_images \/ file_list_len > FlexibleCount
                 THEN <<TRUE, <<"Validation successful (flexible mode)">>>>
                 ELSE <<FALSE,
                        <<"ZIP does not appear to contain Quest capture data">>>>

InitZip ==
    /\ HAS_OPEN3D = TRUE
    /\ PipelineParked
    /\ ThreadParked
    /\ ReconParked
    /\ AuxParkedExcept("zip")
    /\ zp_archive \in Archives
    /\ zp_result = <<>>

\* valid, msg = ZipValidator.validate(zip_path)
Validate ==
    /\ zp_result = <<>>
    /\ zp_result' = validate(zp_archive)
    /\ UNCHANGED <<engine_vars, zp_archive, extract_vars, adapt_vars, log_vars,
                   train_vars, batch_vars>>

SpecZip == InitZip /\ [][Validate]_vars

----------------------------------------------------------------------------
(* QuestDataAdapter (quest_adapter.py) writes frame['pose'], and              *)
(* run_reconstruction reads it as the head pose                               *)
(*                                                                            *)
(* The rotation of the recorded frame is that of a quaternion q of            *)
(* Quaternions, in the order x, y, z, w: a scan_data.json frame carries its   *)
(* matrix, a row of hmd_poses.csv carries its components.                     *)

\* the same rotation matrix, as fractions
SameMatrix(a, b) ==
    \A r \in 1..3, c \in 1..3 : a.num[r][c] * b.den = b.num[r][c] * a.den

\* _adapt_new_format, lines 105-119: the list 'rotation' for the rotation
\* matrix m; with trace > 0 it is [w, x, y, z] = [0.25 / s, ...], which has
\* the direction of [trace + 1, R21 - R12, R02 - R20, R10 - R01]
adapt_rotation(m) ==
    LET M == m.num
        trace == M[1][1] + M[2][2] + M[3][3]
    IN  IF trace > 0
        THEN unit_quat(<<m.den + trace, M[3][2] - M[2][3], M[1][3] - M[3][1],
                         M[2][1] - M[1][2]>>).v
        ELSE <<1, 0, 0, 0>>

\* _adapt_old_format, lines 181-186: [rot_w, rot_x, rot_y, rot_z]
adapt_row(q) == <<q[4], q[1], q[2], q[3]>>

InitAdapt ==
    /\ HAS_OPEN3D = TRUE
    /\ PipelineParked
    /\ ThreadParked
    /\ ReconParked
    /\ AuxParkedExcept("adapt")
    /\ ad_scan \in [format : {"new", "old"}, position : Positions,
                    q : Quaternions \ {ZeroQuat}]
    /\ ad_pose = "unset"
    /\ ad_head_T = "unset"
    /\ ad_pc = "scan"

\* adapt_quest_data, lines 35-51, for one frame
AdaptFrame ==
    /\ ad_pc = "scan"
    /\ ad_pose' =
          [position |-> ad_scan.position,
           rotation |-> IF ad_scan.format = "new"
                        THEN adapt_rotation(from_quat_as_matrix(ad_scan.q))
                        ELSE adapt_row(ad_scan.q)]
    /\ ad_pc' = "frames.json"
    /\ UNCHANGED <<ad_scan, ad_head_T>>
    /\ UNCHANGED <<engine_vars, zip_vars, extract_vars, log_vars, train_vars,
                   batch_vars>>

\* run_reconstruction, lines 186-194: head_R = R.from_quat(head_rot), the
\* list read as [x, y, z, w]
ReadHeadPose ==
    /\ ad_pc = "frames.json"
    /\ ad_head_T' = [R |-> from_quat_as_matrix(ad_pose.rotation),
                     t |-> ad_pose.position]
    /\ ad_pc' = "head"
    /\ UNCHANGED <<ad_scan, ad_pose>>
    /\ UNCHANGED <<engine_vars, zip_vars, extract_vars, log_vars, train_vars,
                   batch_vars>>

NextAdapt ==
    \/ AdaptFrame
    \/ ReadHeadPose

SpecAdapt == InitAdapt /\ [][NextAdapt]_vars

----------------------------------------------------------------------------
(* AsyncExtractor.run (ingestion.py), with all four callbacks supplied        *)
(*                                                                            *)
(* The directory is written with what it holds: the numbers of the archive    *)
(* members extracted into it, and whether it holds what an earlier            *)
(* extraction left.                                                           *)

NoDir == [exists |-> FALSE, holds |-> {}, stale |-> FALSE]

\* what zip_path can name: a file that ZipFile cannot open, or an archive of
\* n members of which member fail_at cannot be extracted (0: none)
ExtractArchives ==
    {[form |-> "bad", n |-> 0, fail_at |-> 0]}
    \cup {[form |-> "zip", n |-> n, fail_at |-> f] :
              n \in 0..MaxMembers, f \in 0..MaxMembers}

\* line 119: int((i + 1) / total_files * 100) after member i + 1 of total;
\* the integer quotient equals it for the totals of the model
extract_progress(done, total) == (done * 100) \div total

\* on_log(text) has been called, then cb(v); either cb returns and run() goes
\* on at 'next', or it raises and run() goes on in the except clause
Invoke(text, cb, v, next) ==
    /\ ex_events' = ex_events \o <<[event |-> "on_log", value |-> text],
                                   [event |-> cb, value |-> v]>>
    /\ ex_pc' = IF ex_raises = cb THEN "except" ELSE next

InitExtract ==
    /\ HAS_OPEN3D = TRUE
    /\ PipelineParked
    /\ ThreadParked
    /\ ReconParked
    /\ AuxParkedExcept("extract")
    /\ ex_archive \in {a \in ExtractArchives : a.fail_at <= a.n}
    /\ ex_raises \in {"none", "on_progress", "on_finished"}
    /\ ex_dir \in {NoDir, [exists |-> TRUE, holds |-> {}, stale |-> TRUE]}
    /\ ex_pc = "start"
    /\ ex_i = 0
    /\ ex_events = <<>>

\* lines 93-109: an old extraction folder is removed, the directory is
\* created, and the archive is opened
ExtractorOpen ==
    /\ ex_pc = "start"
    /\ ex_dir' = [exists |-> TRUE, holds |-> {}, stale |-> FALSE]
    /\ ex_pc' = IF ex_archive.form = "bad" THEN "except" ELSE "loop"
    /\ ex_events' =
          ex_events
          \o (IF ex_dir.exists
              THEN <<[event |-> "on_log", value |-> "Removing old"]>>
              ELSE <<>>)
          \o <<[event |-> "on_log", value |-> "Creating"]>>
          \o (IF ex_archive.form = "bad" THEN <<>>
              ELSE <<[event |-> "on_log", value |-> "Found"]>>)
    /\ UNCHANGED <<ex_archive, ex_raises, ex_i>>
    /\ UNCHANGED <<engine_vars, zip_vars, adapt_vars, log_vars, train_vars,
                   batch_vars>>

\* lines 114-119: one pass of the loop: the throttled on_log, which is every
\* pass for fewer than 40 members, zf.extract, then on_progress
ExtractMember ==
    /\ ex_pc = "loop"
    /\ ex_i < ex_archive.n
    /\ ex_i' = ex_i + 1
    /\ IF ex_archive.fail_at = ex_i + 1
       THEN /\ ex_pc' = "except"
            /\ ex_events' = Append(ex_events,
                                   [event |-> "on_log", value |-> "Extracting"])
            /\ UNCHANGED ex_dir
       ELSE /\ ex_dir' = [ex_dir EXCEPT !.holds = @ \cup {ex_i + 1}]
            /\ Invoke("Extracting", "on_progress",
                      extract_progress(ex_i + 1, ex_archive.n), "loop")
    /\ UNCHANGED <<ex_archive, ex_raises>>
    /\ UNCHANGED <<engine_vars, zip_vars, adapt_vars, log_vars, train_vars,
                   batch_vars>>

\* lines 121-122: the loop has ended; on_log and on_finished(self.temp_dir)
ExtractorFinish ==
    /\ ex_pc = "loop"
    /\ ex_i = ex_archive.n
    /\ Invoke("SUCCESS", "on_finished", "temp_dir", "done")
    /\ UNCHANGED <<ex_archive, ex_raises, ex_dir, ex_i>>
    /\ UNCHANGED <<engine_vars, zip_vars, adapt_vars, log_vars, train_vars,
                   batch_vars>>

\* lines 124-128: the except clause removes the directory and reports
\* on_error(str(e)), then on_log
ExtractorExcept ==
    /\ ex_pc = "except"
    /\ ex_dir' = NoDir
    /\ ex_events' = ex_events \o <<[event |-> "on_error", value |-> "str(e)"],
                                   [event |-> "on_log", value |-> "ERROR"]>>
    /\ ex_pc' = "done"
    /\ UNCHANGED <<ex_archive, ex_raises, ex_i>>
    /\ UNCHANGED <<engine_vars, zip_vars, adapt_vars, log_vars, train_vars,
                   batch_vars>>

NextExtract ==
    \/ ExtractorOpen
    \/ ExtractMember
    \/ ExtractorFinish
    \/ ExtractorExcept

SpecExtract == InitExtract /\ [][NextExtract]_vars

----------------------------------------------------------------------------
(* The training log of NerfStudioUI (nerfstudio_gui.py): _on_training_log     *)
(* called from any thread, and the updater thread _log_updater_loop           *)
(*                                                                            *)
(* A line is <<c, k>>, segment k of the c-th call.  Each read of              *)
(* self.log_buffer outside the lock and each block under the lock is one      *)
(* step.                                                                      *)

SkipMarker == "... [skipped info logs due to high volume] ..."

\* a variant of coalesce that keeps the oldest lines
coalesce_oldest(lines) ==
    IF Len(lines) > CoalesceLimit
    THEN <<SkipMarker>> \o SubSeq(lines, 1, CoalesceLimit)
    ELSE lines

\* lines 783-787: lines[-50:] with the marker inserted in front
coalesce(lines) ==
    IF Len(lines) > CoalesceLimit
    THEN <<SkipMarker>> \o SubSeq(lines, Len(lines) - CoalesceLimit + 1,
                                  Len(lines))
    ELSE lines

\* lines 800-801
prune(controls) ==
    IF Len(controls) > MaxControls
    THEN SubSeq(controls, Len(controls) - MaxControls + 1, Len(controls))
    ELSE controls

Updaters == 1..MaxUpdaters

\* the displayed log is empty after setup_ui and after a clear; it holds up
\* to MaxControls lines, here <<0, k>>, after earlier flushes
InitLog ==
    /\ HAS_OPEN3D = TRUE
    /\ PipelineParked
    /\ ThreadParked
    /\ ReconParked
    /\ AuxParkedExcept("log")
    /\ lg_buffer = <<>>
    /\ lg_running = FALSE
    /\ lg_starting = 0
    /\ lg_upd = [u \in Updaters |-> [pc |-> "none", lines |-> <<>>]]
    /\ \E n \in {0, MaxControls - 1, MaxControls} :
          lg_shown = [k \in 1..n |-> <<0, k>>]
    /\ lg_trainer \in BOOLEAN
    /\ lg_calls = 0

\* a variant of _on_training_log that starts an updater thread on every call
\* that has segments
OnTrainingLogAlwaysStarts ==
    /\ lg_calls < MaxLogCalls
    /\ lg_calls' = lg_calls + 1
    /\ \E n \in {0, 1, CoalesceLimit + 1} :
          IF n = 0
          THEN UNCHANGED <<lg_buffer, lg_running, lg_starting>>
          ELSE /\ lg_buffer' = lg_buffer \o [k \in 1..n |-> <<lg_calls + 1, k>>]
               /\ lg_running' = TRUE
               /\ lg_starting' = lg_starting + 1
    /\ UNCHANGED <<lg_upd, lg_shown, lg_trainer>>
    /\ UNCHANGED <<engine_vars, ingest_vars, train_vars, batch_vars>>

\* _on_training_log(line), lines 743-762, for a line of n non-blank
\* segments: nothing for n = 0; else the block under the lock
OnTrainingLog ==
    /\ lg_calls < MaxLogCalls
    /\ lg_calls' = lg_calls + 1
    /\ \E n \in {0, 1, CoalesceLimit + 1} :
          IF n = 0
          THEN UNCHANGED <<lg_buffer, lg_running, lg_starting>>
          ELSE /\ lg_buffer' = lg_buffer \o [k \in 1..n |-> <<lg_calls + 1, k>>]
               /\ lg_running' = TRUE
               /\ lg_starting' = IF lg_running THEN lg_starting
                                 ELSE lg_starting + 1
    /\ UNCHANGED <<lg_upd, lg_shown, lg_trainer>>
    /\ UNCHANGED <<engine_vars, ingest_vars, train_vars, batch_vars>>

\* lines 763-764: should_start was set, the thread is started
StartUpdater ==
    /\ lg_starting > 0
    /\ \E u \in Updaters :
          /\ lg_upd[u].pc = "none"
          /\ lg_upd' = [lg_upd EXCEPT ![u].pc = "check"]
    /\ lg_starting' = lg_starting - 1
    /\ UNCHANGED <<lg_buffer, lg_running, lg_shown, lg_trainer, lg_calls>>
    /\ UNCHANGED <<engine_vars, ingest_vars, train_vars, batch_vars>>

\* line 769: while self.log_buffer or self.trainer.is_running
UpdaterCheck(u) ==
    /\ lg_upd[u].pc = "check"
    /\ lg_upd' = [lg_upd EXCEPT ![u].pc = IF lg_buffer # <<>> \/ lg_trainer
                                          THEN "body" ELSE "exit"]
    /\ UNCHANGED <<lg_buffer, lg_running, lg_starting, lg_shown, lg_trainer,
                   lg_calls>>
    /\ UNCHANGED <<engine_vars, ingest_vars, train_vars, batch_vars>>

\* lines 771-781: an empty buffer sleeps and continues; else the block under
\* the lock takes all pending lines
UpdaterGrab(u) ==
    /\ lg_upd[u].pc = "body"
    /\ IF lg_buffer = <<>>
       THEN /\ lg_upd' = [lg_upd EXCEPT ![u].pc = "check"]
            /\ UNCHANGED lg_buffer
       ELSE /\ lg_upd' = [lg_upd EXCEPT ![u] = [pc |-> "show",
                                                lines |-> lg_buffer]]
            /\ lg_buffer' = <<>>
    /\ UNCHANGED <<lg_running, lg_starting, lg_shown, lg_trainer, lg_calls>>
    /\ UNCHANGED <<engine_vars, ingest_vars, train_vars, batch_vars>>

\* lines 783-808: coalesce, extend the displayed log, prune it, page.update()
\* and sleep
UpdaterShow(u) ==
    /\ lg_upd[u].pc = "show"
    /\ lg_shown' = prune(lg_shown \o coalesce(lg_upd[u].lines))
    /\ lg_upd' = [lg_upd EXCEPT ![u] = [pc |-> "check", lines |-> <<>>]]
    /\ UNCHANGED <<lg_buffer, lg_running, lg_starting, lg_trainer, lg_calls>>
    /\ UNCHANGED <<engine_vars, ingest_vars, train_vars, batch_vars>>

\* lines 810-811: the loop has ended, the flag is cleared under the lock
UpdaterExit(u) ==
    /\ lg_upd[u].pc = "exit"
    /\ lg_running' = FALSE
    /\ lg_upd' = [lg_upd EXCEPT ![u].pc = "none"]
    /\ UNCHANGED <<lg_buffer, lg_starting, lg_shown, lg_trainer, lg_calls>>
    /\ UNCHANGED <<engine_vars, ingest_vars, train_vars, batch_vars>>

\* the trainer starts or ends a training (nerfstudio_trainer.py 162, 210,
\* 227, 380)
TrainerChanges ==
    /\ lg_trainer' = ~lg_trainer
    /\ UNCHANGED <<lg_buffer, lg_running, lg_starting, lg_upd, lg_shown,
                   lg_calls>>
    /\ UNCHANGED <<engine_vars, ingest_vars, train_vars, batch_vars>>

\* lines 729 and 1202: self.training_log.controls.clear() on the UI thread
ClearLog ==
    /\ lg_shown # <<>>
    /\ lg_shown' = <<>>
    /\ UNCHANGED <<lg_buffer, lg_running, lg_starting, lg_upd, lg_trainer,
                   lg_calls>>
    /\ UNCHANGED <<engine_vars, ingest_vars, train_vars, batch_vars>>

UpdaterStep ==
    \E u \in Updaters :
        UpdaterCheck(u) \/ UpdaterGrab(u) \/ UpdaterShow(u) \/ UpdaterExit(u)

NextLog ==
    \/ OnTrainingLog
    \/ StartUpdater
    \/ UpdaterStep
    \/ TrainerChanges
    \/ ClearLog

SpecLog == InitLog /\ [][NextLog]_vars

\* started threads run: the thread start and every step of the updater loop
\* are taken when they stay possible; no call of _on_training_log and no
\* change of the trainer is ever required
FairSpecLog ==
    SpecLog /\ WF_vars(StartUpdater) /\ WF_vars(UpdaterStep)

----------------------------------------------------------------------------
(* NerfStudioTrainer (nerfstudio_trainer.py): start_training, the monitor     *)
(* thread _monitor_training and stop_training, each on its own thread         *)
(*                                                                            *)
(* Job j is the j-th training started; its subprocess and its monitor thread  *)
(* carry the same number.                                                     *)

Jobs == 1..MaxJobs

\* start_training, lines 84-176: False when a training is in progress
\* (84-86); False when a check fails or Popen raises (88-120, 170-176), which
\* is ok = FALSE; else the subprocess is launched, is_running set and the
\* monitor thread started.  The fields are the return value and the state of
\* the trainer after the call.
start_training(ok) ==
    IF tr_is_running \/ ~ok
    THEN [ret |-> FALSE, is_running |-> tr_is_running, process |-> tr_process,
          alive |-> tr_alive, mon |-> tr_mon]
    ELSE LET j == Cardinality({k \in DOMAIN tr_results : tr_results[k]}) + 1
         IN  [ret |-> TRUE, is_running |-> TRUE, process |-> j,
              alive |-> tr_alive \cup {j},
              mon |-> [tr_mon EXCEPT ![j] = "read"]]

\* a call can succeed while fewer than MaxJobs trainings were started
StartOutcomes ==
    IF Cardinality({k \in DOMAIN tr_results : tr_results[k]}) < MaxJobs
    THEN BOOLEAN ELSE {FALSE}

InitTrain ==
    /\ HAS_OPEN3D = TRUE
    /\ PipelineParked
    /\ ThreadParked
    /\ ReconParked
    /\ AuxParkedExcept("train")
    /\ tr_is_running = FALSE
    /\ tr_process = 0
    /\ tr_alive = {}
    /\ tr_mon = [j \in Jobs |-> "none"]
    /\ tr_stop = "idle"
    /\ tr_results = <<>>
    /\ tr_completed = [j \in Jobs |-> <<>>]

\* the UI calls start_training (nerfstudio_gui.py 719-741, 986-999)
StartTraining ==
    /\ Len(tr_results) < MaxStartCalls
    /\ \E ok \in StartOutcomes :
          LET after == start_training(ok)
          IN  /\ tr_results' = Append(tr_results, after.ret)
              /\ tr_is_running' = after.is_running
              /\ tr_process' = after.process
              /\ tr_alive' = after.alive
              /\ tr_mon' = after.mon
    /\ UNCHANGED <<tr_stop, tr_completed>>
    /\ UNCHANGED <<engine_vars, ingest_vars, log_vars, batch_vars>>

\* a training subprocess exits: normally, with an error, or terminated
ProcessExits ==
    /\ \E j \in tr_alive : tr_alive' = tr_alive \ {j}
    /\ UNCHANGED <<tr_is_running, tr_process, tr_mon, tr_stop, tr_results,
                   tr_completed>>
    /\ UNCHANGED <<engine_vars, ingest_vars, log_vars, batch_vars>>

\* lines 190-205 and 230-249: a line read from self.process.stdout is handed
\* to log_callback and progress_callback; when one of them raises, the except
\* clause of lines 225-227 clears is_running and the thread ends
MonitorLine(m) ==
    /\ tr_mon[m] = "read"
    /\ \E raises \in BOOLEAN :
          IF raises
          THEN /\ tr_is_running' = FALSE
               /\ tr_mon' = [tr_mon EXCEPT ![m] = "failed"]
          ELSE UNCHANGED <<tr_is_running, tr_mon>>
    /\ UNCHANGED <<tr_process, tr_alive, tr_stop, tr_results, tr_completed>>
    /\ UNCHANGED <<engine_vars, ingest_vars, log_vars, batch_vars>>

\* lines 192-198: read(1) on self.process.stdout returns '' once that
\* process has exited
MonitorEof(m) ==
    /\ tr_mon[m] = "read"
    /\ tr_process \notin tr_alive
    /\ tr_mon' = [tr_mon EXCEPT ![m] = "wait"]
    /\ UNCHANGED <<tr_is_running, tr_process, tr_alive, tr_stop, tr_results,
                   tr_completed>>
    /\ UNCHANGED <<engine_vars, ingest_vars, log_vars, batch_vars>>

\* lines 207-210: self.process.wait() has returned; self.is_running = False
MonitorClear(m) ==
    /\ tr_mon[m] = "wait"
    /\ tr_process \notin tr_alive
    /\ tr_is_running' = FALSE
    /\ tr_mon' = [tr_mon EXCEPT ![m] = "callback"]
    /\ UNCHANGED <<tr_process, tr_alive, tr_stop, tr_results, tr_completed>>
    /\ UNCHANGED <<engine_vars, ingest_vars, log_vars, batch_vars>>

\* lines 212-223: completion_callback(success, output_path); the callback of
\* a batch (nerfstudio_gui.py 850-882, 952-999) calls start_training for the
\* next job before it returns
MonitorComplete(m) ==
    /\ tr_mon[m] = "callback"
    /\ tr_completed' = [tr_completed EXCEPT
                            ![m] = Append(tr_completed[m], tr_is_running)]
    /\ \/ /\ tr_mon' = [tr_mon EXCEPT ![m] = "done"]
          /\ UNCHANGED <<tr_is_running, tr_process, tr_alive, tr_results>>
       \/ \E ok \in StartOutcomes :
             LET after == start_training(ok)
             IN  /\ tr_results' = Append(tr_results, after.ret)
                 /\ tr_is_running' = after.is_running
                 /\ tr_process' = after.process
                 /\ tr_alive' = after.alive
                 /\ tr_mon' = [after.mon EXCEPT ![m] = "done"]
    /\ UNCHANGED tr_stop
    /\ UNCHANGED <<engine_vars, ingest_vars, log_vars, batch_vars>>

\* stop_training, lines 376-378: self.process.terminate() when a process
\* exists and is_running holds; otherwise the call returns at once
StopTerminate ==
    /\ tr_stop = "idle"
    /\ tr_process # 0
    /\ tr_is_running
    /\ tr_stop' = "wait"
    /\ UNCHANGED <<tr_is_running, tr_process, tr_alive, tr_mon, tr_results,
                   tr_completed>>
    /\ UNCHANGED <<engine_vars, ingest_vars, log_vars, batch_vars>>

\* line 379: self.process.wait(timeout=5) returns when that process has
\* exited, and raises TimeoutExpired when it has not
StopWait ==
    /\ tr_stop = "wait"
    /\ tr_stop' = IF tr_process \notin tr_alive THEN "clear" ELSE "idle"
    /\ UNCHANGED <<tr_is_running, tr_process, tr_alive, tr_mon, tr_results,
                   tr_completed>>
    /\ UNCHANGED <<engine_vars, ingest_vars, log_vars, batch_vars>>

\* line 380: self.is_running = False
StopClear ==
    /\ tr_stop = "clear"
    /\ tr_is_running' = FALSE
    /\ tr_stop' = "idle"
    /\ UNCHANGED <<tr_process, tr_alive, tr_mon, tr_results, tr_completed>>
    /\ UNCHANGED <<engine_vars, ingest_vars, log_vars, batch_vars>>

\* the steps a monitor thread takes by itself
MonitorStep ==
    \E m \in Jobs : MonitorEof(m) \/ MonitorClear(m) \/ MonitorComplete(m)

NextTrain ==
    \/ StartTraining
    \/ ProcessExits
    \/ \E m \in Jobs : MonitorLine(m)
    \/ MonitorStep
    \/ StopTerminate
    \/ StopWait
    \/ StopClear

SpecTrain == InitTrain /\ [][NextTrain]_vars

\* threads that can take a step take it; a subprocess is not required to
\* exit nor the UI to call anything
FairSpecTrain ==
    SpecTrain /\ WF_vars(MonitorStep) /\ WF_vars(StopWait \/ StopClear)

----------------------------------------------------------------------------
(* Batch training of NerfStudioUI (nerfstudio_gui.py) over the trainer        *)
(*                                                                            *)
(* Thread 0 is the UI thread that runs the click handlers; thread m in Jobs   *)
(* is the monitor thread of training m, which runs _on_training_complete as   *)
(* the completion callback.  A step is one handler up to its call of          *)
(* start_training, or one call of start_training with what follows it.        *)

BatchThreads == {0} \cup Jobs

\* batch_queue[i] for a Python index i: below zero it counts from the end
queue_position(index) ==
    IF index < 0 THEN Len(bt_status) + index + 1 ELSE index + 1

InitBatch ==
    /\ HAS_OPEN3D = TRUE
    /\ PipelineParked
    /\ ThreadParked
    /\ ReconParked
    /\ AuxParkedExcept("batch")
    /\ tr_is_running = FALSE
    /\ tr_process = 0
    /\ tr_alive = {}
    /\ tr_mon = [j \in Jobs |-> "none"]
    /\ tr_stop = "idle"
    /\ tr_results = <<>>
    /\ tr_completed = [j \in Jobs |-> <<>>]
    /\ bt_status = <<>>
    /\ bt_processing = FALSE
    /\ bt_index = -1
    /\ bt_thr = [t \in BatchThreads |-> [pc |-> "idle", job |-> -1]]

\* _on_add_batch, lines 901-917; the button is disabled while a batch runs
AddBatch ==
    /\ bt_thr[0].pc = "idle"
    /\ ~bt_processing
    /\ Len(bt_status) < BatchJobs
    /\ bt_status' = Append(bt_status, "Pending")
    /\ UNCHANGED <<bt_processing, bt_index, bt_thr>>
    /\ UNCHANGED <<engine_vars, ingest_vars, log_vars, train_vars>>

\* _on_clear_batch, lines 919-922; the button is disabled while a batch runs
ClearBatch ==
    /\ bt_thr[0].pc = "idle"
    /\ ~bt_processing
    /\ bt_status # <<>>
    /\ bt_status' = <<>>
    /\ UNCHANGED <<bt_processing, bt_index, bt_thr>>
    /\ UNCHANGED <<engine_vars, ingest_vars, log_vars, train_vars>>

\* _on_train_click, lines 687-741: a training outside the batch, refused
\* while trainer.is_running (693); the button is enabled unless a training
\* ended without its completion callback
TrainClick ==
    /\ bt_thr[0].pc = "idle"
    /\ ~tr_is_running
    /\ \A m \in Jobs : tr_mon[m] # "failed"
    /\ StartTraining

\* _on_start_batch, lines 940-953, up to its call of _start_next_batch_job
\* (no batch is started after MaxStartCalls calls of start_training)
StartBatch ==
    /\ bt_thr[0].pc = "idle"
    /\ ~bt_processing
    /\ bt_status # <<>>
    /\ Len(tr_results) < MaxStartCalls
    /\ bt_processing' = TRUE
    /\ bt_index' = -1
    /\ bt_thr' = [bt_thr EXCEPT ![0].pc = "next"]
    /\ UNCHANGED bt_status
    /\ UNCHANGED <<engine_vars, ingest_vars, log_vars, train_vars>>

\* _start_next_batch_job, lines 955-984, up to its call of start_training
StartNextBatchJob(t) ==
    /\ bt_thr[t].pc = "next"
    /\ IF bt_index + 1 >= Len(bt_status)
       THEN /\ bt_processing' = FALSE
            /\ bt_index' = -1
            /\ bt_thr' = [bt_thr EXCEPT ![t].pc = "idle"]
            /\ UNCHANGED bt_status
       ELSE /\ bt_index' = bt_index + 1
            /\ bt_status' = [bt_status EXCEPT ![bt_index + 2] = "Running"]
            /\ bt_thr' = [bt_thr EXCEPT ![t] = [pc |-> "start",
                                                job |-> bt_index + 1]]
            /\ UNCHANGED bt_processing
    /\ UNCHANGED <<engine_vars, ingest_vars, log_vars, train_vars>>

\* lines 986-999: start_training for the job; when it returns False the job
\* is marked 'Failed' and _start_next_batch_job is called again
BatchStartTraining(t) ==
    /\ bt_thr[t].pc = "start"
    /\ \E ok \in StartOutcomes :
          LET after == start_training(ok)
          IN  /\ tr_results' = Append(tr_results, after.ret)
              /\ tr_is_running' = after.is_running
              /\ tr_process' = after.process
              /\ tr_alive' = after.alive
              /\ tr_mon' = after.mon
              /\ IF after.ret
                 THEN /\ bt_thr' = [bt_thr EXCEPT ![t].pc = "idle"]
                      /\ UNCHANGED bt_status
                 ELSE /\ bt_thr' = [bt_thr EXCEPT ![t].pc = "next"]
                      /\ bt_status' =
                             IF bt_thr[t].job + 1 \in DOMAIN bt_status
                             THEN [bt_status EXCEPT
                                      ![bt_thr[t].job + 1] = "Failed"]
                             ELSE bt_status
    /\ UNCHANGED <<tr_stop, tr_completed, bt_processing, bt_index>>
    /\ UNCHANGED <<engine_vars, ingest_vars, log_vars>>

\* _on_training_complete(success, output_path), lines 850-882, called by the
\* monitor thread of training m (nerfstudio_trainer.py 212-217), up to its
\* call of _start_next_batch_job
OnTrainingComplete(m) ==
    /\ tr_mon[m] = "callback"
    /\ tr_mon' = [tr_mon EXCEPT ![m] = "done"]
    /\ tr_completed' = [tr_completed EXCEPT
                            ![m] = Append(tr_completed[m], tr_is_running)]
    /\ \E success \in BOOLEAN :
          IF bt_processing
          THEN /\ bt_status' =
                      [bt_status EXCEPT ![queue_position(bt_index)] =
                                            IF success THEN "Done" ELSE "Failed"]
               /\ bt_thr' = [bt_thr EXCEPT ![m].pc = "next"]
          ELSE UNCHANGED <<bt_status, bt_thr>>
    /\ UNCHANGED <<tr_is_running, tr_process, tr_alive, tr_stop, tr_results,
                   bt_processing, bt_index>>
    /\ UNCHANGED <<engine_vars, ingest_vars, log_vars>>

NextBatch ==
    \/ AddBatch
    \/ ClearBatch
    \/ TrainClick
    \/ StartBatch
    \/ \E t \in BatchThreads : StartNextBatchJob(t) \/ BatchStartTraining(t)
    \/ ProcessExits
    \/ \E m \in Jobs : MonitorLine(m) \/ MonitorEof(m) \/ MonitorClear(m)
    \/ \E m \in Jobs : OnTrainingComplete(m)
    \/ StopTerminate
    \/ StopWait
    \/ StopClear

SpecBatch == InitBatch /\ [][NextBatch]_vars

----------------------------------------------------------------------------
(* Properties *)

Outcomes == {"Completed", "Failed", "Cancelled"}

NullData(d) == d \in {"no_rgb", "no_depth"}

\* the (manifest index, camera) units this run has fused into the volume
IntegratedUnits == {<<o.frame, o.cam>> : o \in {x \in volume.obs : x.run = run_no}}

\* the number of units of this run with the given verdict
Counted(v) == Cardinality({k \in 1..Len(unit_log) : unit_log[k].verdict = v})

CameraSet == {cameras_to_process[c] : c \in 1..Len(cameras_to_process)}

\* the run was cancelled with exactly the selected frames 0..k handled
CancelledAfter(k) ==
    /\ outcome = "Cancelled"
    /\ result = NoneResult
    /\ extract_calls = 0
    /\ polled = 0..k
    /\ \A n \in 0..k, c \in CameraSet :
          (processing_frame(n)[c] = "ok"
             /\ final_pose(processing_frame(n), c) = "finite")
          => <<current_real_index(n), c>> \in IntegratedUnits
    /\ \A u \in IntegratedUnits : \E n \in 0..k : u[1] = current_real_index(n)

\* C1 (as claimed): a cancel request raised after selected frame k has been
\* processed ends the run as Cancelled with exactly frames 0..k integrated,
\* no result and no call of extract_mesh, for every k.
C1_CancelAfterAnyFrame ==
    (Ended /\ cancel_at.requested /\ ~cancel_at.inflight /\ cancel_at.k >= 0)
    => CancelledAfter(cancel_at.k)

\* C1 (amended): a cancel request raised after selected frame k has been
\* processed, with at least one selected frame left after k, ends the run as
\* Cancelled with exactly frames 0..k integrated, no result and no call of
\* extract_mesh.
C1_CancelWithFramesLeft ==
    (Ended /\ cancel_at.requested /\ ~cancel_at.inflight /\ cancel_at.k >= 0
       /\ cancel_at.k + 1 < total_processing)
    => CancelledAfter(cancel_at.k)

\* cancelled after frame 2 of a longer selection
C1_Witness ==
    /\ Ended
    /\ cancel_at.requested /\ ~cancel_at.inflight /\ cancel_at.k = 2
    /\ total_processing > 3
    /\ outcome = "Cancelled"
    /\ Cardinality(IntegratedUnits) >= 3

\* C2 (as claimed): a run over an empty frame list ends Failed and never
\* calls integrate_frame.
C2_EmptyManifestFails ==
    (Ended /\ total_frames = 0)
    => (outcome = "Failed" /\ Counted("integrated") = 0)

\* C3: a unit whose color image or depth buffer is None is counted in
\* failed_count exactly once and never integrated, and it does not end the
\* run: a run that is neither cancelled nor stopped by an unreadable pose
\* reaches mesh extraction.
C3_NullPayloadCounted ==
    /\ \A k \in 1..Len(unit_log) :
          NullData(unit_log[k].data)
          => /\ unit_log[k].verdict = "failed"
             /\ <<unit_log[k].frame, unit_log[k].cam>> \notin IntegratedUnits
    /\ pc \in {"poll", "cams", "returned"} /\ reconstructor_present
       => failed_count = Counted("failed")
    /\ (Ended /\ reconstructor_present /\ outcome # "Cancelled"
          /\ \A n \in 0..(total_processing - 1) :
                ~pose_read_raises(processing_frame(n)))
       => /\ outcome = "Completed"
          /\ extract_calls = 1
          /\ result.failed_frames = Counted("failed")

\* a completed run in which a None payload was followed by an integrated unit
C3_Witness ==
    /\ outcome = "Completed"
    /\ \E k \in 1..Len(unit_log) :
          /\ NullData(unit_log[k].data)
          /\ k < Len(unit_log)
          /\ unit_log[k + 1].verdict = "integrated"
    /\ result.failed_frames = 1

\* C4 (as claimed): no exception raised while handling one frame escapes
\* run_reconstruction, and a run that is not cancelled handles every
\* selected frame, counting the units of a frame without a usable pose as
\* failed.
C4_InvalidPoseSkipped ==
    /\ pc # "raised"
    /\ (Ended /\ reconstructor_present /\ outcome # "Cancelled")
       => /\ polled = 0..(total_processing - 1)
          /\ \A n \in 0..(total_processing - 1) :
                pose_read_raises(processing_frame(n))
                => \A k \in 1..Len(unit_log) :
                      unit_log[k].i = n => unit_log[k].verdict = "failed"

\* C5 (as claimed): a unit whose converted pose holds NaN/Inf is never
\* integrated and is counted as a failure, at every iteration index.
C5_NonFinitePoseRejected ==
    \A k \in 1..Len(unit_log) :
        unit_log[k].pose = "nonfinite" => unit_log[k].verdict = "failed"

\* C6 (as claimed): a returned result counts every (frame, camera) unit once:
\* processed_frames + failed_frames = selected frames x requested cameras.
C6_EveryUnitCounted ==
    (pc = "returned" /\ result.kind = "dict")
    => result.processed_frames + result.failed_frames
         = total_processing * Len(cameras_to_process)

\* C7 (as claimed): every ended run has one of the three outcomes, and what
\* the caller has in hand tells the outcomes apart: two runs that hand the
\* caller the same thing ended the same way.
C7_OutcomesDistinguishable ==
    /\ Ended => outcome \in Outcomes
    /\ \A a \in reports, b \in reports : a.seen = b.seen => a.outcome = b.outcome

\* C8 (as claimed): once a run is under way its volume, and the mesh it
\* returns, hold only observations integrated during that run.
C8_FreshVolumePerRun ==
    /\ pc \in {"poll", "cams", "returned"}
       => \A o \in volume.obs : o.run = run_no
    /\ (pc = "returned" /\ result.kind = "dict")
       => \A o \in result.mesh.source : o.run = run_no

\* C9 (as claimed): a ReconstructionThread stopped while frames remain ends
\* without calling extract_mesh and without handing a mesh to on_finished.
C9_StopCancels ==
    (t_pc = "done" /\ t_stop_at >= 0 /\ t_stop_at < Len(t_frames))
    => /\ t_extract_calls = 0
       /\ \A e \in 1..Len(t_events) : t_events[e].event # "on_finished"

\* C10: extract_mesh and extract_point_cloud return an object in every state
\* (never None, never an exception), with or without the engine, and the
\* object is empty when nothing has been integrated.
C10_ExtractionTotal ==
    /\ r_mesh.kind \in {"unset", "DummyMesh", "TriangleMesh"}
    /\ r_cloud.kind \in {"unset", "DummyPC", "PointCloud"}
    /\ (r_mesh.kind # "unset" /\ (r_calls = 0 \/ ~HAS_OPEN3D))
       => r_mesh.source = {}
    /\ (r_cloud.kind # "unset" /\ (r_calls = 0 \/ ~HAS_OPEN3D))
       => r_cloud.source = {}

\* both extractions made on a volume into which nothing was integrated
C10_Witness ==
    /\ r_calls = 0
    /\ r_mesh.kind = "TriangleMesh"
    /\ r_cloud.kind = "PointCloud"

C12_BeyondDepthMaxIgnored ==
    (dp_pc = "integrated" /\ dp_info /\ IsFinite(dp_linear)
        /\ FlLess(depth_max, dp_linear))
        => ~is_surface(dp_z)

\* C13: for every raw sample and every 0 < near < far the converted sample
\* is finite and not negative
C13_ConversionTotalAndSafe ==
    (dp_pc # "raw" /\ dp_info /\ ~IsDegenerate(dp_near, dp_far))
        => (IsFinite(dp_linear) /\ dp_linear.n >= 0)

\* C14: with a far plane that is infinite or nearer than the near plane the
\* converted sample is never NaN or Inf, and the sample whose denominator
\* ndc + y is zero (raw = 1 after clamping) converts to 0
C14_DegenerateFarSafe ==
    (dp_pc # "raw" /\ dp_info /\ IsDegenerate(dp_near, dp_far))
        => /\ IsFinite(dp_linear)
           /\ (IsFinite(dp_raw) /\ ~FlLess(dp_raw, One)) => dp_linear = Zero

\* two quaternions stand for one rotation: their directions agree up to sign
SameRotation(a, b) ==
    \/ a.v = b.v
    \/ /\ a.v # ZeroQuat
       /\ b.v # ZeroQuat
       /\ \/ unit_quat(a.v).v = unit_quat(b.v).v
          \/ unit_quat(a.v).v = [c \in 1..4 |-> -unit_quat(b.v).v[c]]

\* C15: converting A -> B and then B -> A returns the original position and
\* the original rotation, for every pair of coordinate systems, for a
\* generic pose and for a camera pose
C15_RoundTrip ==
    cv_pc = "back"
        => /\ cv_cur.coordinate_system = cv_orig.coordinate_system
           /\ cv_cur.positions = cv_orig.positions
           /\ SameRotation(cv_cur.rotations, cv_orig.rotations)

\* a camera pose with a generic rotation taken from OPEN3D to COLMAP and back
C15_Witness ==
    /\ cv_pc = "back"
    /\ cv_is_camera
    /\ cv_orig.coordinate_system = "OPEN3D"
    /\ cv_target = "COLMAP"
    /\ cv_orig.rotations.v = <<1, 2, 2, 4>>
    /\ cv_orig.positions = <<2, -1, 2>>

\* the depth_info carries FOV tangents with non-zero sums and a positive
\* resolution
FovUsable(di) ==
    /\ di.present
    /\ di.width.n > 0
    /\ di.height.n > 0
    /\ FlAdd(di.fov_left, di.fov_right).n # 0
    /\ FlAdd(di.fov_top, di.fov_down).n # 0

\* C16: with FOV tangents and a positive resolution the intrinsics are
\* fx = width/(left+right), fy = height/(top+bottom),
\* cx = width*right/(left+right), cy = height*top/(top+bottom), whatever is
\* stored; tangents of 0.5 and a 640 x 640 image give fx = fy = 640 and
\* cx = cy = 320
C16_IntrinsicsFromFov ==
    (ci_pc = "returned" /\ FovUsable(ci_depth_info))
        => LET di == ci_depth_info
               lr == FlAdd(di.fov_left, di.fov_right)
               tb == FlAdd(di.fov_top, di.fov_down)
               half == Fl(1, 2, 0)
           IN  /\ FlMul(ci_result.fx, lr) = di.width
               /\ FlMul(ci_result.fy, tb) = di.height
               /\ FlMul(ci_result.cx, lr) = FlMul(di.width, di.fov_right)
               /\ FlMul(ci_result.cy, tb) = FlMul(di.height, di.fov_top)
               /\ (di.fov_left = half /\ di.fov_right = half /\ di.fov_top = half
                   /\ di.fov_down = half /\ di.width = Num(640)
                   /\ di.height = Num(640))
                  => ci_result = [kind |-> "ok", fx |-> Num(640), fy |-> Num(640),
                                  cx |-> Num(320), cy |-> Num(320)]

\* the call of the example, made while other intrinsics are stored
C16_Witness ==
    /\ ci_pc = "returned"
    /\ ci_depth_info = [present |-> TRUE, width |-> Num(640), height |-> Num(640),
                        fov_left |-> Fl(1, 2, 0), fov_right |-> Fl(1, 2, 0),
                        fov_top |-> Fl(1, 2, 0), fov_down |-> Fl(1, 2, 0)]
    /\ "fx" \in DOMAIN ci_stored
    /\ ci_result.fx = Num(640)

\* C17: a call that falls back to the hard-coded nominal intrinsics (no FOV
\* tangents in use, nothing stored) leaves a log entry
C17_FallbackLogged ==
    (ci_pc = "returned" /\ ~FovUsable(ci_depth_info) /\ ci_stored = <<>>
        /\ ci_result = NominalIntrinsics)
        => Len(ci_log) > 0

\* C20: every value the orchestrator passes to on_progress lies in 0..1
C20_ProgressIsFraction ==
    \A k \in 1..Len(progress) : progress[k] >= 0 /\ progress[k] <= 1

\* C18: a frames.json that is a plain list and one that is an object with a
\* "frames" key are both loaded by the orchestrator, and each yields the
\* frame records of the file in their order
C18_BothVariantsAccepted ==
    (ld_pipeline.kind # "unset" /\ ld_file.form \in {"list", "object"})
        => (ld_pipeline.kind = "ok" /\ ld_pipeline.frames = ld_file.frames)

\* C19: process_quest_frame returns exactly three values; for a project path
\* that does not exist they are (None, None, None)
C19_ThreeValues ==
    ld_resolved # <<>>
        => /\ Len(ld_resolved) = 3
           /\ ld_file.form = "missing" => ld_resolved = <<None, None, None>>

\* the call of verify_preview_fix.py: a path that does not exist
C19_Witness ==
    /\ ld_file.form = "missing"
    /\ ld_resolved # <<>>

\* C21: an archive that holds frames.json is accepted when it also holds
\* entries under raw_images/ and under depth_maps/; when it holds entries
\* under neither, it is rejected with a message that contains
\* 'Missing required directories'
C21_ZipValidation ==
    LET in_dir(d) == {f \in zp_archive.names :
                          f.name \in {d \o "/test.jpg", d \o "/test.png",
                                      d \o "/test.raw"}}
        has_frames == \E f \in zp_archive.names : f.name = "frames.json"
    IN  (zp_result # <<>> /\ zp_archive.form = "zip" /\ has_frames)
            => /\ (in_dir("raw_images") # {} /\ in_dir("depth_maps") # {})
                    => zp_result[1] = TRUE
               /\ (in_dir("raw_images") = {} /\ in_dir("depth_maps") = {})
                    => /\ zp_result[1] = FALSE
                       /\ \E k \in DOMAIN zp_result[2] :
                              zp_result[2][k] = "Missing required directories"

\* the frames visited (the on_frame calls) and the (frame, camera) units
\* handled so far are an initial part of: the manifest indices start,
\* start + k, ... up to min(end, last index) in ascending order, each with
\* the requested cameras in the order left, right; a frame is begun only when
\* the one before it has had all its cameras; every unit is of the frame whose
\* index on_frame was given; a completed run has visited them all
SelectionAsClaimed ==
    LET k == args.frame_interval
        last == Len(frames) - 1
        lim == IF args.end_frame = NoEnd \/ args.end_frame > last THEN last
               ELSE args.end_frame
        count == IF lim >= args.start_frame
                 THEN (lim - args.start_frame) \div k + 1 ELSE 0
        expected == [n \in 1..count |-> args.start_frame + (n - 1) * k]
        cams == IF args.camera = "both" THEN <<"left", "right">>
                ELSE <<args.camera>>
        nc == Len(cams)
        units == [m \in 1..(count * nc) |->
                     <<expected[(m - 1) \div nc + 1], cams[((m - 1) % nc) + 1]>>]
        handled == [m \in DOMAIN unit_log |->
                       <<unit_log[m].frame, unit_log[m].cam>>]
    IN  /\ Len(on_frame_log) <= count
        /\ on_frame_log = SubSeq(expected, 1, Len(on_frame_log))
        /\ Len(handled) <= count * nc
        /\ handled = SubSeq(units, 1, Len(handled))
        /\ Len(unit_log) <= Len(on_frame_log) * nc
        /\ Len(on_frame_log) > 0 => Len(unit_log) >= (Len(on_frame_log) - 1) * nc
        /\ \A m \in DOMAIN unit_log :
              unit_log[m].frame = on_frame_log[unit_log[m].i + 1]
        /\ outcome = "Completed" => (on_frame_log = expected /\ handled = units)

C23_CooperativeCancel ==
    LET k == cancel_at.k
        done(n) == {unit_log[m].cam : m \in {x \in DOMAIN unit_log :
                                                unit_log[x].i = n}}
    IN  /\ pc = "poll" => poll_count = i
        /\ pc = "cams" => (poll_count = i + 1 /\ i \in polled)
        /\ \A m \in DOMAIN unit_log :
              /\ unit_log[m].i \in polled
              /\ poll_count > unit_log[m].i
        /\ Len(on_frame_log) = Cardinality(polled)
        /\ (cancel_at.requested /\ cancel_at.inflight) =>
              /\ (Ended \/ i > k) =>
                    /\ done(k) = CameraSet
                    /\ \A c \in CameraSet :
                          (processing_frame(k)[c] = "ok"
                             /\ final_pose(processing_frame(k), c) = "finite")
                          => <<processing_frames[k + 1], c>> \in IntegratedUnits
              /\ (Ended /\ k + 1 < total_processing) =>
                    /\ outcome = "Cancelled"
                    /\ polled = 0..k
                    /\ poll_count = k + 2
                    /\ \A m \in DOMAIN unit_log : unit_log[m].i <= k

\* a cancel request raised between the two cameras of frame 0 of a run in
\* 'both' mode: both cameras were integrated, and the run ended Cancelled at
\* the test before frame 1
C23_Witness ==
    /\ cancel_at.requested /\ cancel_at.inflight /\ cancel_at.k = 0
    /\ args.camera = "both"
    /\ total_processing = 2
    /\ outcome = "Cancelled"
    /\ IntegratedUnits = {<<0, "left">>, <<0, "right">>}

\* C25: the progress notification of an iteration is emitted after the frame
\* of that iteration has been processed: at any moment there are at most as
\* many notifications as frames whose cameras have all been handled, and the
\* completion value 100 is not among them while a frame is unprocessed
C25_ProgressAfterProcessing ==
    /\ Len(progress) <= i
    /\ (\E n \in DOMAIN progress : progress[n] = 100) => i >= total_processing

\* C26: the pose the orchestrator hands to the integrator is the camera pose
\* converted as a camera pose: its rotation is that of the is_camera variant
\* of convert_coordinate_system (with the camera-local basis correction), and
\* its position is the converted position
C26_HandedAsCameraPose ==
    cv_pc = "handed"
        => LET as_camera == convert_coordinate_system(cv_orig, "OPEN3D", TRUE)
           IN  /\ cv_cur.coordinate_system = "OPEN3D"
               /\ cv_cur.positions = as_camera.positions
               /\ SameRotation(cv_cur.rotations, as_camera.rotations)

\* C27: a conversion from tag S to tag T multiplies the position by
\* Basis(T) * Basis(S)^T, with Basis(UNITY) = I, Basis(OPEN3D) = diag(1,1,-1),
\* Basis(COLMAP) = diag(1,-1,1): UNITY <-> OPEN3D negates only z,
\* UNITY <-> COLMAP negates only y, OPEN3D <-> COLMAP negates y and z; the
\* result is tagged T; a conversion to the same tag returns the input
C27_PositionSigns ==
    cv_pc = "there"
        => LET S == cv_orig.coordinate_system
               p == cv_orig.positions
               q == cv_cur.positions
               flips == IF S = cv_target THEN {}
                        ELSE IF {S, cv_target} = {"UNITY", "OPEN3D"} THEN {3}
                        ELSE IF {S, cv_target} = {"UNITY", "COLMAP"} THEN {2}
                        ELSE {2, 3}
           IN  /\ cv_cur.coordinate_system = cv_target
               /\ \A r \in 1..3 : q[r] = IF r \in flips THEN -p[r] ELSE p[r]
               /\ S = cv_target => cv_cur = cv_orig

\* a position with three non-zero components taken from OPEN3D to COLMAP
C27_Witness ==
    /\ cv_pc = "there"
    /\ cv_orig.coordinate_system = "OPEN3D"
    /\ cv_target = "COLMAP"
    /\ cv_orig.positions = <<2, -1, 2>>
    /\ cv_cur.positions = <<2, 1, -2>>

\* C24: a call of _on_training_log is possible in every state, whatever the
\* updater is doing, and only appends its lines to the buffer: the displayed
\* log and the updater threads are as before.  Each flush of the updater adds
\* the pending lines it took as one batch: all of them when they are at most
\* 50, else one skip marker followed by the 50 most recent of them
C24_LogNeverStalls ==
    /\ [](lg_calls < MaxLogCalls => ENABLED OnTrainingLog)
    /\ [][/\ lg_calls' # lg_calls =>
                /\ lg_shown' = lg_shown
                /\ lg_upd' = lg_upd
                /\ Len(lg_buffer') >= Len(lg_buffer)
                /\ SubSeq(lg_buffer', 1, Len(lg_buffer)) = lg_buffer
          /\ \A u \in Updaters :
                (lg_upd[u].pc = "show" /\ lg_upd'[u].pc # "show") =>
                    LET taken == lg_upd[u].lines
                        n == Len(taken)
                        batch == IF n > 50
                                 THEN <<SkipMarker>> \o SubSeq(taken, n - 49, n)
                                 ELSE taken
                    IN  /\ Len(lg_shown') >= Len(batch)
                        /\ SubSeq(lg_shown', Len(lg_shown') - Len(batch) + 1,
                                  Len(lg_shown')) = batch
                        /\ Len(lg_shown') <= Len(lg_shown) + 51
         ]_vars

\* a flush of more than 50 pending lines has been displayed with its marker,
\* and a later call has appended a line while the updater was displaying
\* another batch
C24_Witness ==
    /\ \E n \in DOMAIN lg_shown : lg_shown[n] = SkipMarker
    /\ Len(lg_shown) = 51
    /\ \E u \in Updaters : lg_upd[u].pc = "show"
    /\ lg_buffer # <<>>

\* C30: no line is stranded: without any further call of _on_training_log,
\* the lines appended to log_buffer are eventually all taken by an updater
\* and displayed (or dropped by the coalescing), so that from some moment on
\* nothing is pending
C30_NoLineStranded ==
    <>[](/\ lg_buffer = <<>>
         /\ \A u \in Updaters : lg_upd[u].lines = <<>>)

\* C28: is_running is true whenever a training subprocess launched by the
\* trainer is alive, so at most one subprocess is alive at any time
C28_RunningWhileAlive ==
    /\ tr_alive # {} => tr_is_running
    /\ Cardinality(tr_alive) <= 1

\* C29: for every training that start_training reported as started, once its
\* subprocess has exited completion_callback is eventually invoked, exactly
\* once and with is_running cleared - also when a log or progress callback
\* raised while the output was monitored
C29_CompletionReported ==
    /\ [](\A j \in Jobs : Len(tr_completed[j]) <= 1)
    /\ \A j \in Jobs :
          (tr_mon[j] # "none" /\ j \notin tr_alive)
              ~> (tr_completed[j] = <<FALSE>>)

\* C31: at most one thread runs _log_updater_loop or is about to be started
\* to run it, however the calls of _on_training_log interleave with it, and
\* the displayed log holds at most 500 lines after every flush
C31_OneUpdater ==
    /\ Cardinality({u \in Updaters : lg_upd[u].pc # "none"}) + lg_starting <= 1
    /\ Len(lg_shown) <= 500

\* a flush onto a full displayed log has pruned its oldest lines, and the
\* updater is showing a further batch while a call has appended lines and
\* found the flag set
C31_Witness ==
    /\ Len(lg_shown) = 500
    /\ lg_shown[1][2] > 1
    /\ \E u \in Updaters : lg_upd[u].pc = "show"
    /\ lg_buffer # <<>>
    /\ lg_running
    /\ lg_starting = 0

\* C32: at most one job has status 'Running' at any time; a job is set to
\* 'Running' only when the job before it in the queue is 'Done' or 'Failed';
\* and when the batch finishes every job is 'Done' or 'Failed',
\* is_batch_processing is False and current_batch_index is -1
C32_BatchInOrder ==
    /\ [](Cardinality({q \in DOMAIN bt_status : bt_status[q] = "Running"}) <= 1)
    /\ [][/\ \A q \in DOMAIN bt_status :
                (/\ q > 1
                 /\ q \in DOMAIN bt_status'
                 /\ bt_status[q] # "Running"
                 /\ bt_status'[q] = "Running")
                    => bt_status[q - 1] \in {"Done", "Failed"}
          /\ (bt_processing /\ ~bt_processing') =>
                /\ \A q \in DOMAIN bt_status' :
                      bt_status'[q] \in {"Done", "Failed"}
                /\ bt_index' = -1
         ]_vars

\* C33: a worker that has ended has reported exactly one terminal event,
\* on_finished or on_error and not both, and no progress event after it -
\* also when on_finished itself raises
C33_OneTerminalEvent ==
    LET terminal == {k \in DOMAIN ex_events :
                         ex_events[k].event \in {"on_finished", "on_error"}}
    IN  /\ Cardinality(terminal) <= 1
        /\ ex_pc = "done" =>
              /\ Cardinality(terminal) = 1
              /\ \A k \in terminal, later \in DOMAIN ex_events :
                    later > k => ex_events[later].event # "on_progress"

\* C34: what a completed run returns does not depend on on_log being
\* supplied: the mesh is exported to a file, and its path returned, exactly
\* when a run with on_log over the same frames and configuration exports it;
\* the counts returned are those of the units integrated and failed
C34_SameWithoutOnLog ==
    (pc = "returned" /\ outcome = "Completed") =>
        /\ result.output_path = export_mesh(TRUE, export_env)
        /\ result.processed_frames = Counted("integrated")
        /\ result.failed_frames = Counted("failed")

\* C35: the head rotation the pipeline builds from the frames.json written by
\* the adapter is the rotation of the recorded pose, for every recorded
\* rotation, those of trace <= 0 included; the position is the recorded one
C35_RotationSurvives ==
    ad_pc = "head" =>
        /\ SameMatrix(ad_head_T.R, from_quat_as_matrix(ad_scan.q))
        /\ ad_head_T.t = ad_scan.position

\* C36: the progress values of a run never decrease, and when a run over at
\* least one frame, not stopped, has reached the mesh extraction, the last
\* value emitted is the completion value 1.0 - also when frames, the last one
\* included, were skipped
C36_ProgressCompletes ==
    /\ \A k \in 1..(Len(t_progress) - 1) :
          t_progress[k][1] * t_progress[k + 1][2]
              <= t_progress[k + 1][1] * t_progress[k][2]
    /\ (t_extract_calls > 0 /\ Len(t_frames) >= 1 /\ t_is_running)
          => /\ t_progress # <<>>
             /\ t_progress[Len(t_progress)][1] = t_progress[Len(t_progress)][2]

\* the positions in ex_events of the calls of callback cb
Reported(cb) == {k \in DOMAIN ex_events : ex_events[k].event = cb}

\* C37: after a run that reported on_finished(dir) the directory exists and
\* holds every archive member, and on_finished came only after the last member
\* was extracted and progress reached 100; after a run that reported on_error
\* the directory has been removed; what an earlier extraction left is deleted
\* before extraction starts
C37_ConsistentDirectory ==
    /\ (ex_pc = "done" /\ Reported("on_finished") # {})
          => /\ ex_dir.exists
             /\ ex_dir.holds = 1..ex_archive.n
    /\ \A k \in Reported("on_finished") :
          /\ ex_i = ex_archive.n
          /\ \E j \in Reported("on_progress") :
                j < k /\ ex_events[j].value = 100
    /\ (ex_pc = "done" /\ Reported("on_error") # {}) => ex_dir = NoDir
    /\ ex_pc # "start" => ~ex_dir.stale

\* a raw sample of [0, 1]
InUnit(r) == IsFinite(r) /\ ~FlLess(r, Zero) /\ ~FlLess(One, r)

\* C38: for finite planes 0 < near < far a raw sample of [0, 1] converts to a
\* depth within [near, far], raw 0 to near and raw 1 to far, and a larger raw
\* sample never converts to a smaller depth
C38_LinearWithinPlanes ==
    (dp_pc # "raw" /\ dp_info /\ ~IsDegenerate(dp_near, dp_far)
        /\ InUnit(dp_raw))
        => /\ IsFinite(dp_linear)
           /\ ~FlLess(dp_linear, dp_near)
           /\ ~FlLess(dp_far, dp_linear)
           /\ dp_raw = Zero => dp_linear = dp_near
           /\ dp_raw = One => dp_linear = dp_far
           /\ \A r \in RawSamples :
                 (InUnit(r) /\ FlLess(dp_raw, r))
                    => LET v == convert_depth_to_linear(r, dp_near, dp_far,
                                                        dp_dtype, dp_value_based)
                       IN  IsFinite(v) /\ ~FlLess(v, dp_linear)


====
